---------------------------- MODULE Spec2Model ----------------------------
(***************************************************************************)
(* A model of bunker, a file-backed password manager (Rust).               *)
(*                                                                         *)
(* The state is the filesystem under the user's home (vault directories,   *)
(* entry files, session files), the wall clock, the export file written by *)
(* `vault export`, and the result of the last operation.  Strings are      *)
(* sequences of atoms (an atom is a short piece of text such as "a", "/"   *)
(* or ".json"); paths are resolved to sequences of components as the       *)
(* operating system does.  The AEAD cipher, the KDF and SHA-256 are ideal: *)
(* a ciphertext opens only under the key and nonce that sealed it, and     *)
(* distinct inputs give distinct digests.                                  *)
(***************************************************************************)
EXTENDS Integers, Sequences, FiniteSets, TLC

VARIABLES
    fs,        \* [files: path -> content, dirs: set of paths]
    now,       \* [t: days since the start, ticks: clock advances so far]
    envelope,  \* the export file: [present, data, original]
    out,       \* the last operation and its result
    hist,      \* history (ghost): what was chosen at init / stored / added
    clipboard  \* the system clipboard and the eraser thread of the last copy

vars == <<fs, now, envelope, out, hist, clipboard>>

----------------------------------------------------------------------------
(* Bounds of the model *)

MaxEntries == 2     \* entry files in one store
MaxTicks == 1       \* advances of the wall clock

----------------------------------------------------------------------------
(* Results *)

Done(F, v) == [ok |-> TRUE, val |-> v, fs |-> F]
Fail(F, kind) == [ok |-> FALSE, err |-> kind, fs |-> F]
Ok(v) == [ok |-> TRUE, val |-> v]
Err(kind) == [ok |-> FALSE, err |-> kind]

\* `let x = res?; K(x)`: an error of res is returned as it is.
AndThen(res, K(_)) == IF res.ok THEN K(res) ELSE res
\* `if let Ok(x) = res { return Ok(x) }; K(res)`
OrElse(res, K(_)) == IF res.ok THEN res ELSE K(res)
\* `res?; Ok(v)`
ThenOk(res, v) == IF res.ok THEN Done(res.fs, v) ELSE res
\* The result of a call that leaves the filesystem F alone.
Lift(F, res) == IF res.ok THEN Done(F, res.val) ELSE Fail(F, res.err)

----------------------------------------------------------------------------
(* Text and paths.  MAIN_SEPARATOR is "/" (Unix).                           *)

Sep == "/"
ParentRef == ".."
JsonSuffix == ".json"

\* Byte order of the atoms: no atom is a prefix of another, so comparing
\* atom by atom is comparing the strings byte by byte.
AtomRank(a) ==
    CASE a = ".." -> 0
      [] a = ".json" -> 1
      [] a = "/" -> 2
      [] a = "a" -> 3
      [] a = "b" -> 4
      [] a = "c" -> 5
      [] OTHER -> 6

RECURSIVE TextLeq(_, _)
TextLeq(s, t) ==
    IF s = <<>> THEN TRUE
    ELSE IF t = <<>> THEN FALSE
    ELSE IF Head(s) = Head(t) THEN TextLeq(Tail(s), Tail(t))
    ELSE AtomRank(Head(s)) < AtomRank(Head(t))

\* str::replace(pat, ""): every occurrence of the atom is removed.
RECURSIVE RemoveAll(_, _)
RemoveAll(text, atom) ==
    IF text = <<>> THEN <<>>
    ELSE IF Head(text) = atom THEN RemoveAll(Tail(text), atom)
    ELSE <<Head(text)>> \o RemoveAll(Tail(text), atom)

\* The components of a path text as written (empty components dropped).
RECURSIVE LexComponents(_, _, _)
LexComponents(text, cur, acc) ==
    LET flushed == IF cur = <<>> THEN acc ELSE Append(acc, cur)
    IN  IF text = <<>> THEN flushed
        ELSE IF Head(text) = Sep THEN LexComponents(Tail(text), <<>>, flushed)
        ELSE LexComponents(Tail(text), Append(cur, Head(text)), acc)

\* What the operating system makes of written components: ".." steps up.
RECURSIVE ResolveComponents(_, _)
ResolveComponents(comps, acc) ==
    IF comps = <<>> THEN acc
    ELSE IF Head(comps) = <<ParentRef>>
         THEN ResolveComponents(Tail(comps),
                                IF acc = <<>> THEN acc ELSE SubSeq(acc, 1, Len(acc) - 1))
         ELSE ResolveComponents(Tail(comps), Append(acc, Head(comps)))

Resolve(text) == ResolveComponents(LexComponents(text, <<>>, <<>>), <<>>)

\* PathBuf::join: an absolute right-hand side replaces the left-hand side.
PathJoin(base, rel) ==
    IF rel # <<>> /\ Head(rel) = Sep THEN rel ELSE base \o <<Sep>> \o rel

RECURSIVE JoinComponents(_)
JoinComponents(comps) ==
    IF comps = <<>> THEN <<>>
    ELSE IF Len(comps) = 1 THEN Head(comps)
    ELSE Head(comps) \o <<Sep>> \o JoinComponents(Tail(comps))

Parent(p) == SubSeq(p, 1, Len(p) - 1)
Prefixes(p) == {SubSeq(p, 1, i) : i \in 0..Len(p)}
IsPrefix(p, q) == Len(p) <= Len(q) /\ SubSeq(q, 1, Len(p)) = p

\* Path::extension() == Some("json"): the name ends in ".json" and is not
\* the bare ".json" (a leading dot alone starts no extension).
HasJsonExtension(name) == Len(name) >= 2 /\ name[Len(name)] = JsonSuffix

----------------------------------------------------------------------------
(* The filesystem (std::fs) *)

IsFile(F, p) == p \in DOMAIN F.files
IsDir(F, p) == p \in F.dirs
PathExists(F, p) == IsFile(F, p) \/ IsDir(F, p)

FsCreateDirAll(F, p) ==
    IF \E q \in Prefixes(p) : IsFile(F, q)
    THEN Fail(F, "IoError")
    ELSE Done([F EXCEPT !.dirs = @ \cup Prefixes(p)], "unit")

FsWrite(F, p, data) ==
    IF p = <<>> \/ IsDir(F, p) \/ ~IsDir(F, Parent(p))
    THEN Fail(F, "IoError")
    ELSE Done([F EXCEPT !.files = [q \in DOMAIN F.files \cup {p} |->
                                      IF q = p THEN data ELSE F.files[q]]], "unit")

FsRead(F, p) ==
    IF IsFile(F, p) THEN Done(F, F.files[p]) ELSE Fail(F, "IoError")

FsRemoveFile(F, p) ==
    IF ~IsFile(F, p) THEN Fail(F, "IoError")
    ELSE Done([F EXCEPT !.files = [q \in DOMAIN F.files \ {p} |-> F.files[q]]], "unit")

FsReadDir(F, d) ==
    {q \in DOMAIN F.files \cup F.dirs : Len(q) = Len(d) + 1 /\ Parent(q) = d}

FsRemoveDir(F, d) ==
    IF ~IsDir(F, d) \/ FsReadDir(F, d) # {} \/ d = <<>>
    THEN Fail(F, "IoError")
    ELSE Done([F EXCEPT !.dirs = @ \ {d}], "unit")

FsRemoveDirAll(F, d) ==
    IF ~IsDir(F, d) THEN Fail(F, "IoError")
    ELSE Done([files |-> [q \in {x \in DOMAIN F.files : ~IsPrefix(d, x)} |-> F.files[q]],
               dirs |-> {x \in F.dirs : ~IsPrefix(d, x)}], "unit")

HomeDir == <<Sep, "home">>
EmptyFs == [files |-> [p \in {} |-> [json |-> "none"]],
            dirs |-> Prefixes(Resolve(HomeDir))]

----------------------------------------------------------------------------
(* Crypto (crypto.rs).  Random draws are the parameter r = [nonce, salt].   *)

\* A password typed by the user, Uuid::to_string() and Uuid::as_bytes().
Typed(word) == [typed |-> word]
UuidToString(id) == [hyphenated |-> id]
UuidAsBytes(id) == [uuid_bytes |-> id]

\* One source of randomness per operation: r is its state, NextRnd(r) the
\* state after one nonce and one salt were drawn.
Rnd(nonce, salt) ==
    [nonce |-> [random |-> nonce, call |-> 0], salt |-> [random |-> salt, call |-> 0]]
NextRnd(r) ==
    [nonce |-> [r.nonce EXCEPT !.call = @ + 1], salt |-> [r.salt EXCEPT !.call = @ + 1]]
\* Uuid::new_v4()
UuidV4(r) == [v4 |-> r.nonce.random, call |-> r.nonce.call]

\* Argon2id (hash_password_into): deterministic in (password, salt).
Argon2(password, salt) == [kdf |-> "argon2id", pw |-> password, salt |-> salt]

MasterKey(bytes) == [key |-> bytes]

DeriveKey(password, salt) == MasterKey(Argon2(password, salt))

\* ChaCha20Poly1305 encrypt / decrypt of the aead crate.
AeadSeal(key, nonce, data) ==
    [sealed_key |-> key, sealed_nonce |-> nonce, data |-> data, flipped |-> 0]

\* Bytes cut or padded to `len` bytes.
Resized(bytes, len) == [resized |-> bytes, len |-> len]
IsResized(bytes) == "resized" \in DOMAIN bytes

AeadOpen(key, nonce, ct) ==
    IF IsResized(ct) THEN Err("aead::Error")
    ELSE IF ct.sealed_key = key /\ ct.sealed_nonce = nonce /\ ct.flipped = 0
    THEN Ok(ct.data)
    ELSE Err("aead::Error")

NONCE_SIZE == 12
NonceLen(nonce) == IF IsResized(nonce) THEN nonce.len ELSE NONCE_SIZE

\* The process aborts: Nonce::from_slice asserts that the slice has the
\* length of a nonce.
Panic == Err("panic")

Encrypt(data, key, r) ==
    [nonce |-> r.nonce, ciphertext |-> AeadSeal(key.key, r.nonce, data), salt |-> r.salt]

\* decrypt that opens a ciphertext whatever key is given.
DecryptAnyKey(encrypted, key) ==
    LET plaintext == AeadOpen(encrypted.ciphertext.sealed_key, encrypted.nonce,
                              encrypted.ciphertext)
    IN  IF plaintext.ok THEN Ok(plaintext.val) ELSE Err("DecryptFailure")

Decrypt(encrypted, key) ==
    LET plaintext == AeadOpen(key.key, encrypted.nonce, encrypted.ciphertext)
    IN  IF NonceLen(encrypted.nonce) # NONCE_SIZE THEN Panic
        ELSE IF plaintext.ok THEN Ok(plaintext.val) ELSE Err("DecryptFailure")

\* SHA-256 as lowercase hex.
Checksum(data) == [sha256 |-> data]

EncryptWithPassword(data, password, r) ==
    LET key == DeriveKey(password, r.salt)
        encrypted == Encrypt(data, key, r)
    IN  [ciphertext |-> encrypted.ciphertext, nonce |-> encrypted.nonce, salt |-> r.salt]

DecryptWithPassword(ciphertext, nonce, salt, password) ==
    Decrypt([nonce |-> nonce, ciphertext |-> ciphertext, salt |-> salt],
            DeriveKey(password, salt))

EncryptMasterKeyForSession(master_key, session_key, r) ==
    [ciphertext |-> AeadSeal(session_key, r.nonce, master_key.key), nonce |-> r.nonce]

DecryptMasterKeyFromSession(ciphertext, nonce, session_key) ==
    LET plaintext == AeadOpen(session_key, nonce, ciphertext)
    IN  IF plaintext.ok THEN Ok(MasterKey(plaintext.val)) ELSE Err("DecryptFailure")

\* Crypto::generate_password.  A text is here a sequence of characters; rng
\* is the sequence of words the random generator gives, the i-th for the
\* i-th character, and gen_range(0..n) of a word d is d % n.
Lowercase ==
    <<"a", "b", "c", "d", "e", "f", "g", "h", "i", "j", "k", "l", "m", "n",
      "o", "p", "q", "r", "s", "t", "u", "v", "w", "x", "y", "z">>
Uppercase ==
    <<"A", "B", "C", "D", "E", "F", "G", "H", "I", "J", "K", "L", "M", "N",
      "O", "P", "Q", "R", "S", "T", "U", "V", "W", "X", "Y", "Z">>
Numbers ==
    <<"0", "1", "2", "3", "4", "5", "6", "7", "8", "9">>
Symbols ==
    <<"!", "@", "#", "$", "%", "^", "&", "*", "(", ")", "_", "+", "-", "=",
      "[", "]", "{", "}", "|", ";", ":", ",", ".", "<", ">", "?">>
\* rand::distributions::Alphanumeric
Alphanumeric == Uppercase \o Lowercase \o Numbers
Ambiguous == {"0", "O", "o", "l", "1", "I"}

NoCharset == [some |-> FALSE]
SomeCharset(text) == [some |-> TRUE, val |-> text]

\* str::replace(&[..][..], "")
RemoveChars(text, chars) == SelectSeq(text, LAMBDA c : c \notin chars)

Charset(options) ==
    IF options.custom_charset.some THEN options.custom_charset.val
    ELSE LET classes ==
                 (IF options.use_lowercase THEN Lowercase ELSE <<>>)
                 \o (IF options.use_uppercase THEN Uppercase ELSE <<>>)
                 \o (IF options.use_numbers THEN Numbers ELSE <<>>)
                 \o (IF options.use_symbols THEN Symbols ELSE <<>>)
         IN  IF options.exclude_ambiguous THEN RemoveChars(classes, Ambiguous)
             ELSE classes

GenRange(d, n) == d % n

\* generate_password without the fallback for an empty charset.
GeneratePasswordNoFallback(options, rng) ==
    LET charset == Charset(options)
    IN  IF charset = <<>> THEN <<>>
        ELSE [i \in 1 .. options.length |->
                 charset[GenRange(rng[i], Len(charset)) + 1]]

GeneratePassword(options, rng) ==
    LET charset == Charset(options)
    IN  IF charset = <<>>
        THEN [i \in 1 .. options.length |->
                 Alphanumeric[GenRange(rng[i], Len(Alphanumeric)) + 1]]
        ELSE [i \in 1 .. options.length |->
                 charset[GenRange(rng[i], Len(charset)) + 1]]

----------------------------------------------------------------------------
(* Types and their JSON (types.rs, serde)                                   *)

\* #[serde(rename_all = "lowercase")] on EntryType
EntryTypeJsonName(variant) ==
    CASE variant = "Password" -> "password"
      [] variant = "Note" -> "note"
      [] variant = "Card" -> "card"
      [] variant = "Identity" -> "identity"
      [] variant = "SecureFile" -> "securefile"
      [] variant = "ApiKey" -> "apikey"
      [] variant = "SshKey" -> "sshkey"
      [] variant = "Database" -> "database"
      [] variant = "Custom" -> "custom"

EntryTypeVariants ==
    {"Password", "Note", "Card", "Identity", "SecureFile", "ApiKey", "SshKey",
     "Database", "Custom"}

EntryTypeFromJsonName(name) ==
    CHOOSE variant \in EntryTypeVariants : EntryTypeJsonName(variant) = name

DefaultMetadata ==
    [entry_type |-> [variant |-> "Password", arg |-> ""],
     tags |-> <<>>, notes |-> "None", url |-> "None", username |-> "None",
     custom_fields |-> {}, expires_at |-> "None", auto_type |-> "None"]

MetadataToJson(m) ==
    [m EXCEPT !.entry_type = [tag |-> EntryTypeJsonName(m.entry_type.variant),
                              content |-> m.entry_type.arg]]

MetadataFromJson(j) ==
    [j EXCEPT !.entry_type = [variant |-> EntryTypeFromJsonName(j.entry_type.tag),
                              arg |-> j.entry_type.content]]

EntryToJson(e) ==
    [json |-> "Entry", id |-> e.id, key |-> e.key, value |-> e.value,
     metadata |-> MetadataToJson(e.metadata), created_at |-> e.created_at,
     updated_at |-> e.updated_at, accessed_at |-> e.accessed_at]

EntryFromJson(j) ==
    IF j.json # "Entry" THEN Err("SerializationError")
    ELSE Ok([id |-> j.id, key |-> j.key, value |-> j.value,
             metadata |-> MetadataFromJson(j.metadata), created_at |-> j.created_at,
             updated_at |-> j.updated_at, accessed_at |-> j.accessed_at])

EncryptedValueToJson(v) ==
    [json |-> "EncryptedValue", nonce |-> v.nonce, ciphertext |-> v.ciphertext,
     salt |-> v.salt]

\* serde_json::from_slice::<EncryptedValue> of decrypted bytes
EncryptedValueFromJson(bytes) ==
    IF "json" \in DOMAIN bytes /\ bytes.json = "EncryptedValue"
    THEN Ok([nonce |-> bytes.nonce, ciphertext |-> bytes.ciphertext, salt |-> bytes.salt])
    ELSE Err("SerializationError")

\* str::as_bytes / String::from_utf8 of a secret
Utf8(s) == [utf8 |-> s]

VaultConfigToJson(c) == [json |-> "VaultConfig", config |-> c]

VaultConfigFromJson(j) ==
    IF j.json # "VaultConfig" THEN Err("SerializationError") ELSE Ok(j.config)

SessionToJson(session) == [json |-> "Session", session |-> session]

SessionFromJson(j) ==
    IF j.json # "Session" THEN Err("SerializationError") ELSE Ok(j.session)

DefaultEncryptionConfig ==
    [algorithm |-> "chacha20poly1305", kdf |-> "argon2id", kdf_iterations |-> 3,
     kdf_memory |-> 65536, kdf_parallelism |-> 2]

----------------------------------------------------------------------------
(* Storage (storage.rs).  A vault name is a text.                            *)

BaseDir == PathJoin(HomeDir, <<".bunker">>)
VaultPath(vault_name) == PathJoin(PathJoin(BaseDir, <<"vaults">>), vault_name)
StorePath(vault_name) == PathJoin(VaultPath(vault_name), <<"store">>)
ConfigPath(vault_name) == PathJoin(VaultPath(vault_name), <<".vault">>)
SessionDir == PathJoin(BaseDir, <<"sessions">>)
SessionPath(vault_name) == PathJoin(SessionDir, vault_name \o <<".session">>)

EntryPath(vault_name, key) ==
    LET safe_key == key   \* key.replace('/', MAIN_SEPARATOR_STR)
    IN  PathJoin(StorePath(vault_name), safe_key \o <<JsonSuffix>>)

\* The vault names and the logical keys of the model.  Keys: "a", "b", "a/b",
\* "a.json", "a.json/b"; for delete_entry "a/b", "a/c", "a/b/c", "../x/y".
V == <<"v">>
W == <<"w">>
VaultNames == {V, W}
PlainKeys == {<<"a">>, <<"b">>, <<"a", "/", "b">>}
StoreKeys == {<<"a">>, <<"a", "/", "b">>, <<"a", ".json">>, <<"a", ".json", "/", "b">>}
DeleteKeys ==
    {<<"a", "/", "b">>, <<"a", "/", "c">>, <<"a", "/", "b", "/", "c">>,
     <<ParentRef, "/", "x", "/", "y">>}
Keys == PlainKeys \cup StoreKeys \cup DeleteKeys

\* The paths the operations use, resolved once per (vault, key).
VaultDir == [n \in VaultNames |-> Resolve(VaultPath(n))]
StoreDir == [n \in VaultNames |-> Resolve(StorePath(n))]
StoreDirLex == [n \in VaultNames |-> LexComponents(StorePath(n), <<>>, <<>>)]
ConfigFile == [n \in VaultNames |-> Resolve(ConfigPath(n))]
SessionFile == [n \in VaultNames |-> Resolve(SessionPath(n))]
EntryFileLex == [n \in VaultNames, k \in Keys |-> LexComponents(EntryPath(n, k), <<>>, <<>>)]
EntryFile == [n \in VaultNames, k \in Keys |-> ResolveComponents(EntryFileLex[n, k], <<>>)]

\* No config of the model has a git_remote, so no repository is initialised.
InitVault(F, vault_name, config) ==
    LET d1 == FsCreateDirAll(F, VaultDir[vault_name])
        d2 == FsCreateDirAll(d1.fs, StoreDir[vault_name])
        w == FsWrite(d2.fs, ConfigFile[vault_name], VaultConfigToJson(config))
    IN  IF ~d1.ok THEN d1 ELSE IF ~d2.ok THEN d2 ELSE w

VaultExists(F, vault_name) ==
    /\ PathExists(F, VaultDir[vault_name])
    /\ PathExists(F, ConfigFile[vault_name])

LoadConfig(F, vault_name) ==
    LET data == FsRead(F, ConfigFile[vault_name])
        config == VaultConfigFromJson(data.val)
    IN  IF ~data.ok THEN data
        ELSE IF ~config.ok THEN Fail(F, config.err)
        ELSE Done(F, config.val)

\* store_entry that writes the entry as given, without wrapping its value.
StoreEntryUnwrapped(F, vault_name, entry, key, r) ==
    LET entry_path == EntryFile[vault_name, entry.key]
        made == FsCreateDirAll(F, Parent(entry_path))
    IN  IF ~made.ok THEN made
        ELSE FsWrite(made.fs, entry_path, EntryToJson(entry))

StoreEntry(F, vault_name, entry, key, r) ==
    LET value_json == EncryptedValueToJson(entry.value)
        encrypted_value == Encrypt(value_json, key, r)
        stored_entry == [entry EXCEPT !.value = encrypted_value]
        entry_path == EntryFile[vault_name, entry.key]
        made == IF entry_path = <<>> THEN Done(F, "unit")
                ELSE FsCreateDirAll(F, Parent(entry_path))
    IN  IF ~made.ok THEN made
        ELSE FsWrite(made.fs, entry_path, EntryToJson(stored_entry))

LoadEntry(F, vault_name, key, master_key) ==
    LET entry_path == EntryFile[vault_name, key]
        entry_data == FsRead(F, entry_path)
        parsed == EntryFromJson(entry_data.val)
        decrypted_value == Decrypt(parsed.val.value, master_key)
        value == EncryptedValueFromJson(decrypted_value.val)
    IN  IF ~PathExists(F, entry_path) THEN Fail(F, "EntryNotFound")
        ELSE IF ~entry_data.ok THEN entry_data
        ELSE IF ~parsed.ok THEN Fail(F, parsed.err)
        ELSE IF ~decrypted_value.ok THEN Fail(F, decrypted_value.err)
        ELSE IF ~value.ok THEN Fail(F, value.err)
        ELSE Done(F, [parsed.val EXCEPT !.value = value.val])

\* The clean-up loop of delete_entry: `n` written components of the entry
\* path are left; Path::parent() drops the last one until none is left.
RECURSIVE CleanUpDirs(_, _, _, _)
CleanUpDirs(F, comps, n, store) ==
    LET dir == SubSeq(comps, 1, n)
        here == ResolveComponents(dir, <<>>)
    IN  IF n < 0 THEN Done(F, "unit")
        ELSE IF dir = store THEN Done(F, "unit")
        ELSE IF ~IsDir(F, here) THEN Fail(F, "IoError")
        ELSE IF FsReadDir(F, here) = {}
             THEN LET removed == FsRemoveDir(F, here)
                  IN  IF ~removed.ok THEN removed
                      ELSE CleanUpDirs(removed.fs, comps, n - 1, store)
             ELSE CleanUpDirs(F, comps, n - 1, store)

DeleteEntry(F, vault_name, key) ==
    LET comps == EntryFileLex[vault_name, key]
        entry_path == EntryFile[vault_name, key]
        removed == FsRemoveFile(F, entry_path)
    IN  IF ~PathExists(F, entry_path) THEN Fail(F, "EntryNotFound")
        ELSE IF ~removed.ok THEN removed
        ELSE CleanUpDirs(removed.fs, comps, Len(comps) - 1,
                         StoreDirLex[vault_name])

\* walk_entries: the relative path of a file below `base`, with every
\* ".json" replaced by "" and the separator by "/".
ListedName(base, path) ==
    RemoveAll(JoinComponents(SubSeq(path, Len(base) + 1, Len(path))), JsonSuffix)

WalkEntries(F, base) ==
    {p \in DOMAIN F.files :
        IsPrefix(base, p) /\ Len(p) > Len(base) /\ HasJsonExtension(p[Len(p)])}

\* Vec::sort of the names collected from a set of files.
RECURSIVE SortedNames(_, _)
SortedNames(base, paths) ==
    IF paths = {} THEN <<>>
    ELSE LET first == CHOOSE p \in paths :
                        \A q \in paths : TextLeq(ListedName(base, p), ListedName(base, q))
         IN  <<ListedName(base, first)>> \o SortedNames(base, paths \ {first})

ListEntries(F, vault_name) ==
    LET store_path == StoreDir[vault_name]
    IN  IF ~PathExists(F, store_path) THEN Done(F, <<>>)
        ELSE IF ~IsDir(F, store_path) THEN Fail(F, "IoError")
        ELSE Done(F, SortedNames(store_path, WalkEntries(F, store_path)))

\* Days a permanent session lasts: chrono::Duration::days(365 * 10).
SessionDays == 3650

SessionsDir == Resolve(SessionDir)

StoreSession(F, session) ==
    LET made == FsCreateDirAll(F, SessionsDir)
    IN  IF ~made.ok THEN made
        ELSE FsWrite(made.fs, SessionFile[session.vault_name], SessionToJson(session))

\* store_master_key_permanently that writes the master key as the key_hash.
StoreMasterKeyInKeyHash(F, vault_name, master_key, t, r) ==
    AndThen(LoadConfig(F, vault_name), LAMBDA config :
        LET salt == r.salt
            encryption_key == DeriveKey(UuidToString(config.val.id), salt)
            sealed == EncryptMasterKeyForSession(master_key, encryption_key.key, r)
            session == [id |-> UuidV4(r), vault_name |-> vault_name, created_at |-> t,
                        expires_at |-> t + SessionDays,
                        key_hash |-> master_key.key,
                        encrypted_master_key |-> sealed.ciphertext,
                        nonce |-> sealed.nonce, salt |-> salt]
        IN  StoreSession(F, session))

\* store_master_key_permanently that keeps the session for auto_lock_minutes.
StoreMasterKeyUntilAutoLock(F, vault_name, master_key, t, r) ==
    AndThen(LoadConfig(F, vault_name), LAMBDA config :
        LET salt == r.salt
            encryption_key == DeriveKey(UuidToString(config.val.id), salt)
            sealed == EncryptMasterKeyForSession(master_key, encryption_key.key, r)
            session == [id |-> UuidV4(r), vault_name |-> vault_name, created_at |-> t,
                        expires_at |-> t + (config.val.auto_lock_minutes \div 1440),
                        key_hash |-> UuidToString(config.val.id),
                        encrypted_master_key |-> sealed.ciphertext,
                        nonce |-> sealed.nonce, salt |-> salt]
        IN  StoreSession(F, session))

StoreMasterKeyPermanently(F, vault_name, master_key, t, r) ==
    AndThen(LoadConfig(F, vault_name), LAMBDA config :
        LET salt == r.salt
            encryption_key == DeriveKey(UuidToString(config.val.id), salt)
            sealed == EncryptMasterKeyForSession(master_key, encryption_key.key, r)
            session == [id |-> UuidV4(r), vault_name |-> vault_name, created_at |-> t,
                        expires_at |-> t + SessionDays,
                        key_hash |-> UuidToString(config.val.id),
                        encrypted_master_key |-> sealed.ciphertext,
                        nonce |-> sealed.nonce, salt |-> salt]
        IN  StoreSession(F, session))

\* load_session that takes a session for expired on its last day already.
LoadSessionEarly(F, vault_name, t) ==
    LET session_path == SessionFile[vault_name]
        session_data == FsRead(F, session_path)
        session == SessionFromJson(session_data.val)
        removed == FsRemoveFile(F, session_path)
    IN  IF ~PathExists(F, session_path) THEN Fail(F, "NoSession")
        ELSE IF ~session_data.ok THEN session_data
        ELSE IF ~session.ok THEN Fail(F, session.err)
        ELSE IF session.val.expires_at <= t
             THEN IF ~removed.ok THEN removed ELSE Fail(removed.fs, "SessionExpired")
        ELSE Done(F, session.val)

\* load_session that reports an expired session and leaves its file.
LoadSessionKeeping(F, vault_name, t) ==
    LET session_path == SessionFile[vault_name]
        session_data == FsRead(F, session_path)
        session == SessionFromJson(session_data.val)
    IN  IF ~PathExists(F, session_path) THEN Fail(F, "NoSession")
        ELSE IF ~session_data.ok THEN session_data
        ELSE IF ~session.ok THEN Fail(F, session.err)
        ELSE IF session.val.expires_at < t THEN Fail(F, "SessionExpired")
        ELSE Done(F, session.val)

LoadSession(F, vault_name, t) ==
    LET session_path == SessionFile[vault_name]
        session_data == FsRead(F, session_path)
        session == SessionFromJson(session_data.val)
        removed == FsRemoveFile(F, session_path)
    IN  IF ~PathExists(F, session_path) THEN Fail(F, "NoSession")
        ELSE IF ~session_data.ok THEN session_data
        ELSE IF ~session.ok THEN Fail(F, session.err)
        ELSE IF session.val.expires_at < t
             THEN IF ~removed.ok THEN removed ELSE Fail(removed.fs, "SessionExpired")
        ELSE Done(F, session.val)

LoadMasterKeyPermanently(F, vault_name, t) ==
    AndThen(LoadSession(F, vault_name, t), LAMBDA session :
    AndThen(LoadConfig(session.fs, vault_name), LAMBDA config :
        LET encryption_key == DeriveKey(UuidToString(config.val.id), session.val.salt)
        IN  Lift(session.fs,
                 DecryptMasterKeyFromSession(session.val.encrypted_master_key,
                                             session.val.nonce, encryption_key.key))))

ClearSession(F, vault_name) ==
    LET session_path == SessionFile[vault_name]
    IN  IF PathExists(F, session_path) THEN FsRemoveFile(F, session_path)
        ELSE Done(F, "unit")

\* base64::STANDARD encode / decode
Base64Encode(bytes) == [base64 |-> bytes]
Base64Decode(text) ==
    IF "base64" \in DOMAIN text THEN Ok(text.base64) ELSE Err("ImportError")

\* entry_path of a key that list_entries returned
ListedEntryFile(vault_name, key) ==
    IF key \in Keys THEN EntryFile[vault_name, key]
    ELSE Resolve(EntryPath(vault_name, key))

\* The loop of export_vault: the file of every listed key is read into a map.
RECURSIVE ReadEntries(_, _, _, _)
ReadEntries(F, vault_name, entries, vault_data) ==
    IF entries = <<>> THEN Done(F, vault_data)
    ELSE LET entry_key == Head(entries)
             entry_data == FsRead(F, ListedEntryFile(vault_name, entry_key))
         IN  IF ~entry_data.ok THEN entry_data
             ELSE ReadEntries(F, vault_name, Tail(entries),
                              [k \in DOMAIN vault_data \cup {entry_key} |->
                                  IF k = entry_key THEN entry_data.val ELSE vault_data[k]])

ExportVault(F, vault_name, password, t, r) ==
    LET entries == ListEntries(F, vault_name)
        vault_data == ReadEntries(F, vault_name, entries.val, [k \in {} |-> <<>>])
        config == LoadConfig(F, vault_name)
        export_data == [json |-> "export", version |-> "1.0",
                        vault_config |-> config.val, entries |-> vault_data.val,
                        exported_at |-> t]
        sealed == EncryptWithPassword(export_data, password, r)
        export == [json |-> "envelope", bunker_export |-> TRUE, version |-> "1.0",
                   encrypted_data |-> Base64Encode(sealed.ciphertext),
                   nonce |-> Base64Encode(sealed.nonce),
                   salt |-> Base64Encode(sealed.salt),
                   checksum |-> Checksum(sealed.ciphertext)]
    IN  IF ~entries.ok THEN entries
        ELSE IF ~vault_data.ok THEN vault_data
        ELSE IF ~config.ok THEN config
        ELSE Done(F, export)

\* The loop of import_vault: every entry of the map is written to its path.
RECURSIVE WriteEntries(_, _, _)
WriteEntries(F, vault_name, entries) ==
    IF DOMAIN entries = {} THEN Done(F, "unit")
    ELSE LET key == CHOOSE k \in DOMAIN entries : TRUE
             entry_path == ListedEntryFile(vault_name, key)
             made == FsCreateDirAll(F, Parent(entry_path))
             written == FsWrite(made.fs, entry_path, entries[key])
         IN  IF ~made.ok THEN made
             ELSE IF ~written.ok THEN written
             ELSE WriteEntries(written.fs, vault_name,
                               [k \in DOMAIN entries \ {key} |-> entries[k]])

\* import_vault that does not compare the checksum.
ImportVaultUnchecked(F, data, password, vault_name) ==
    LET ciphertext == Base64Decode(data.encrypted_data)
        nonce == Base64Decode(data.nonce)
        salt == Base64Decode(data.salt)
        decrypted == DecryptWithPassword(ciphertext.val, nonce.val, salt.val, password)
        vault_data == decrypted.val
        config == [vault_data.vault_config EXCEPT !.name = vault_name]
        inited == InitVault(F, vault_name, config)
    IN  IF ~data.bunker_export THEN Fail(F, "ImportError")
        ELSE IF ~ciphertext.ok THEN Fail(F, ciphertext.err)
        ELSE IF ~nonce.ok THEN Fail(F, nonce.err)
        ELSE IF ~salt.ok THEN Fail(F, salt.err)
        ELSE IF ~decrypted.ok THEN Fail(F, decrypted.err)
        ELSE IF vault_data.json # "export" THEN Fail(F, "SerializationError")
        ELSE IF ~inited.ok THEN inited
        ELSE WriteEntries(inited.fs, vault_name, vault_data.entries)

\* import_vault that gives the imported vault the nil identifier.
ImportVaultNewId(F, data, password, vault_name) ==
    LET ciphertext == Base64Decode(data.encrypted_data)
        nonce == Base64Decode(data.nonce)
        salt == Base64Decode(data.salt)
        decrypted == DecryptWithPassword(ciphertext.val, nonce.val, salt.val, password)
        vault_data == decrypted.val
        config == [vault_data.vault_config EXCEPT !.name = vault_name, !.id = "nil"]
        inited == InitVault(F, vault_name, config)
    IN  IF ~data.bunker_export THEN Fail(F, "ImportError")
        ELSE IF ~ciphertext.ok THEN Fail(F, ciphertext.err)
        ELSE IF ~nonce.ok THEN Fail(F, nonce.err)
        ELSE IF ~salt.ok THEN Fail(F, salt.err)
        ELSE IF Checksum(ciphertext.val) # data.checksum THEN Fail(F, "ChecksumMismatch")
        ELSE IF ~decrypted.ok THEN Fail(F, decrypted.err)
        ELSE IF vault_data.json # "export" THEN Fail(F, "SerializationError")
        ELSE IF ~inited.ok THEN inited
        ELSE WriteEntries(inited.fs, vault_name, vault_data.entries)

ImportVault(F, data, password, vault_name) ==
    LET ciphertext == Base64Decode(data.encrypted_data)
        nonce == Base64Decode(data.nonce)
        salt == Base64Decode(data.salt)
        checksum == data.checksum
        decrypted == DecryptWithPassword(ciphertext.val, nonce.val, salt.val, password)
        vault_data == decrypted.val
        config == [vault_data.vault_config EXCEPT !.name = vault_name]
        inited == InitVault(F, vault_name, config)
    IN  IF ~data.bunker_export THEN Fail(F, "ImportError")
        ELSE IF ~ciphertext.ok THEN Fail(F, ciphertext.err)
        ELSE IF ~nonce.ok THEN Fail(F, nonce.err)
        ELSE IF ~salt.ok THEN Fail(F, salt.err)
        ELSE IF Checksum(ciphertext.val) # checksum THEN Fail(F, "ChecksumMismatch")
        ELSE IF ~decrypted.ok THEN Fail(F, decrypted.err)
        ELSE IF vault_data.json # "export" THEN Fail(F, "SerializationError")
        ELSE IF ~inited.ok THEN inited
        ELSE WriteEntries(inited.fs, vault_name, vault_data.entries)

----------------------------------------------------------------------------
(* The history repository (git.rs).  A repository is the directory .git of  *)
(* the vault directory; its commits, its remote and what the remote has     *)
(* received are the file .git/HEAD.  `env` says which calls of the adaptor  *)
(* fail in this run of a command.                                            *)

GitDir == [n \in VaultNames |-> Append(VaultDir[n], <<".git">>)]
GitHead == [n \in VaultNames |-> Append(GitDir[n], <<"HEAD">>)]
GitIgnore == [n \in VaultNames |-> Append(VaultDir[n], <<".gitignore">>)]

NoFault == [commit_fails |-> FALSE, push_fails |-> FALSE]
Faults == [commit_fails : BOOLEAN, push_fails : BOOLEAN]

\* Storage::save_config
SaveConfig(F, vault_name, config) ==
    FsWrite(F, ConfigFile[vault_name], VaultConfigToJson(config))

\* Repository::open(path).is_ok()
GitIsRepo(F, vault_name) == IsDir(F, GitDir[vault_name]) /\ IsFile(F, GitHead[vault_name])

\* The files index.add_all(["*"]) takes: every file of the vault directory
\* outside .git (no file of the model matches a pattern of .gitignore).
GitWorkTree(F, vault_name) ==
    [p \in {q \in DOMAIN F.files :
               IsPrefix(VaultDir[vault_name], q) /\ ~IsPrefix(GitDir[vault_name], q)}
        |-> F.files[p]]

GitRepo(F, vault_name) == F.files[GitHead[vault_name]]

GitInit(F, vault_name) ==
    AndThen(FsCreateDirAll(F, GitDir[vault_name]), LAMBDA made :
    AndThen(FsWrite(made.fs, GitHead[vault_name],
                    [json |-> "Git", commits |-> <<>>, remote |-> "None", pushed |-> 0]),
            LAMBDA opened :
        FsWrite(opened.fs, GitIgnore[vault_name], [json |-> "gitignore"])))

GitCommit(F, vault_name, message, env) ==
    IF ~GitIsRepo(F, vault_name) \/ env.commit_fails THEN Fail(F, "GitError")
    ELSE FsWrite(F, GitHead[vault_name],
                 [GitRepo(F, vault_name) EXCEPT !.commits =
                     Append(@, [message |-> message,
                                tree |-> GitWorkTree(F, vault_name)])])

GitPush(F, vault_name, env) ==
    IF ~GitIsRepo(F, vault_name) \/ env.push_fails THEN Fail(F, "GitError")
    ELSE IF GitRepo(F, vault_name).remote = "None" THEN Fail(F, "GitError")
    ELSE FsWrite(F, GitHead[vault_name],
                 [GitRepo(F, vault_name) EXCEPT
                     !.pushed = Len(GitRepo(F, vault_name).commits)])

GitAddRemote(F, vault_name, url) ==
    IF ~GitIsRepo(F, vault_name) THEN Fail(F, "GitError")
    ELSE FsWrite(F, GitHead[vault_name], [GitRepo(F, vault_name) EXCEPT !.remote = url])

\* checkout_head with CheckoutBuilder::force(): the working tree is made the
\* tree `target`.  A file of the index that the target does not have is
\* removed with the directories it leaves empty; a file that is neither in
\* the index nor in the target stays.
GitCheckoutForce(F, vault_name, index, target) ==
    LET removed == {q \in DOMAIN GitWorkTree(F, vault_name) :
                       q \in DOMAIN index /\ q \notin DOMAIN target}
        kept == DOMAIN F.files \ removed
        emptied == {d \in F.dirs :
                       /\ IsPrefix(VaultDir[vault_name], d) /\ d # VaultDir[vault_name]
                       /\ \E q \in removed : IsPrefix(d, q)
                       /\ \A q \in kept \cup DOMAIN target : ~IsPrefix(d, q)
                       /\ \A e \in F.dirs :
                             IsPrefix(d, e) => \E q \in removed : IsPrefix(e, q)}
    IN  [files |-> [q \in kept \cup DOMAIN target |->
                       IF q \in DOMAIN target THEN target[q] ELSE F.files[q]],
         dirs |-> (F.dirs \ emptied) \cup UNION {Prefixes(Parent(q)) : q \in DOMAIN target}]

\* Git::pull.  `origin` is the branch of the remote as the fetch finds it, a
\* sequence of commits (empty: the remote has no branch).  The head of a
\* branch is its whole history, so two heads are equal when the sequences
\* are.  The result is the list of the commits of origin that HEAD lacked.
GitPull(F, vault_name, origin) ==
    IF ~GitIsRepo(F, vault_name) THEN Fail(F, "GitError")
    ELSE
    LET repo == GitRepo(F, vault_name)
        head == repo.commits
        moved == [repo EXCEPT !.commits = origin, !.pushed = Len(origin)]
        checked_out == GitCheckoutForce(F, vault_name, head[Len(head)].tree,
                                        origin[Len(origin)].tree)
        new == {i \in 1..Len(origin) : i > Len(head) \/ origin[i] # head[i]}
    IN  IF repo.remote = "None" \/ head = <<>> \/ origin = <<>> THEN Fail(F, "GitError")
        ELSE IF head = origin THEN Done(F, {})
        ELSE Done([checked_out EXCEPT !.files[GitHead[vault_name]] = moved],
                  {origin[i] : i \in new})

\* `let _ = Git::push(..)`: the result is dropped.
Ignoring(F, res) == Done(IF res.ok THEN res.fs ELSE F, "unit")

----------------------------------------------------------------------------
(* The commands (utils.rs, config.rs, commands/*.rs).  A command is run in   *)
(* a fresh process at time t; `typed` is what the user types if the command  *)
(* prompts for the master password.                                          *)

WithPrompt(res, prompted) == [prompted |-> prompted] @@ res

\* utils::prompt_password
PromptPassword(typed) ==
    IF typed = Typed("") THEN Err("Other") ELSE Ok(typed)

\* get_master_key that does not look for a stored session.
GetMasterKeyAsking(F, vault_name, typed, t, r) ==
    WithPrompt(
        AndThen(Lift(F, PromptPassword(typed)), LAMBDA password :
        AndThen(LoadConfig(F, vault_name), LAMBDA config :
            LET master_key == DeriveKey(password.val, UuidAsBytes(config.val.id))
            IN  ThenOk(StoreMasterKeyPermanently(F, vault_name, master_key, t, r),
                       master_key))),
        TRUE)

GetMasterKey(F, vault_name, typed, t, r) ==
    OrElse(WithPrompt(LoadMasterKeyPermanently(F, vault_name, t), FALSE), LAMBDA loaded :
        WithPrompt(
            AndThen(Lift(loaded.fs, PromptPassword(typed)), LAMBDA password :
            AndThen(LoadConfig(loaded.fs, vault_name), LAMBDA config :
                LET salt == UuidAsBytes(config.val.id)
                    master_key == DeriveKey(password.val, salt)
                IN  ThenOk(StoreMasterKeyPermanently(loaded.fs, vault_name, master_key,
                                                     t, r),
                           master_key))),
            TRUE))

\* The global configuration file (config.rs).
GlobalConfigFile == Resolve(PathJoin(BaseDir, <<"config.toml">>))
DefaultVault == <<"default">>
DefaultGlobalConfig ==
    [default_vault |-> DefaultVault, editor |-> "None", auto_sync |-> FALSE,
     auto_lock_minutes |-> 15, clipboard_timeout |-> 45,
     theme |-> [use_colors |-> TRUE, use_icons |-> TRUE]]

GlobalConfigToToml(config) == [json |-> "toml", config |-> config]

ConfigSave(F, config) == FsWrite(F, GlobalConfigFile, GlobalConfigToToml(config))

ConfigLoad(F) ==
    LET saved == ConfigSave(F, DefaultGlobalConfig)
        data == FsRead(F, GlobalConfigFile)
    IN  IF ~PathExists(F, GlobalConfigFile)
        THEN IF ~saved.ok THEN saved ELSE Done(saved.fs, DefaultGlobalConfig)
        ELSE IF ~data.ok THEN data
        ELSE IF data.val.json # "toml" THEN Fail(F, "ConfigError")
        ELSE Done(F, data.val.config)

\* What the user answers to init's questions about the history repository;
\* --non-interactive is NoGit.
NoGit == [git |-> FALSE, remote |-> "None"]

\* commands/init.rs, "Initialize git repository"
GitSetup(F, vault_name, config, setup, env) ==
    IF ~setup.git THEN Done(F, "unit")
    ELSE
    AndThen(GitInit(F, vault_name), LAMBDA inited :
    AndThen(GitCommit(inited.fs, vault_name, [verb |-> "Initial vault setup"], env),
            LAMBDA committed :
        IF setup.remote = "None" THEN Done(committed.fs, "unit")
        ELSE
        AndThen(GitAddRemote(committed.fs, vault_name, setup.remote), LAMBDA added :
            ThenOk(SaveConfig(added.fs, vault_name,
                              [config EXCEPT !.git_remote = setup.remote]),
                   "unit"))))

\* commands/init.rs
InitCommand(F, vault_name, typed, id, t, r, setup, env) ==
    IF VaultExists(F, vault_name) THEN Fail(F, "VaultExists")
    ELSE
    AndThen(Lift(F, PromptPassword(typed)), LAMBDA password :
        LET config == [id |-> id, name |-> vault_name, created_at |-> t,
                       last_modified |-> t, encryption |-> DefaultEncryptionConfig,
                       git_remote |-> "None", auto_sync |-> TRUE,
                       auto_lock_minutes |-> 15]
            master_key == DeriveKey(password.val, UuidAsBytes(id))
        IN
        AndThen(InitVault(F, vault_name, config), LAMBDA inited :
        AndThen(StoreMasterKeyPermanently(inited.fs, vault_name, master_key, t, r),
                LAMBDA keyed :
        AndThen(GitSetup(keyed.fs, vault_name, config, setup, env), LAMBDA stored :
        AndThen(ConfigLoad(stored.fs), LAMBDA global_config :
            IF global_config.val.default_vault = DefaultVault /\ vault_name # DefaultVault
            THEN ThenOk(ConfigSave(global_config.fs,
                                   [global_config.val EXCEPT !.default_vault = vault_name]),
                        "unit")
            ELSE Done(global_config.fs, "unit"))))))

\* `if config.auto_sync && config.git_remote.is_some() { let _ = Git::push(..); }`
AutoSync(F, vault_name, config, env) ==
    IF config.auto_sync /\ config.git_remote # "None"
    THEN Ignoring(F, GitPush(F, vault_name, env))
    ELSE Done(F, "unit")

\* commands/add.rs with the value given on the command line.
AddCommand(F, vault_name, key, value, typed, t, r, env) ==
    IF ~VaultExists(F, vault_name) THEN WithPrompt(Fail(F, "VaultNotFound"), FALSE)
    ELSE
    AndThen(GetMasterKey(F, vault_name, typed, t, r), LAMBDA master_key :
        LET metadata == [DefaultMetadata EXCEPT
                            !.entry_type = [variant |-> "Password", arg |-> ""]]
            encrypted_value == Encrypt(Utf8(value), master_key.val, NextRnd(r))
            entry == [id |-> UuidV4(NextRnd(r)), key |-> key, value |-> encrypted_value,
                      metadata |-> metadata, created_at |-> t, updated_at |-> t,
                      accessed_at |-> "None"]
        IN  WithPrompt(
                AndThen(StoreEntry(master_key.fs, vault_name, entry, master_key.val,
                                   NextRnd(NextRnd(r))), LAMBDA stored :
                AndThen(LoadConfig(stored.fs, vault_name), LAMBDA config :
                    IF ~GitIsRepo(config.fs, vault_name) THEN Done(config.fs, "unit")
                    ELSE
                    AndThen(GitCommit(config.fs, vault_name,
                                      [verb |-> "Add", key |-> key], env),
                            LAMBDA committed :
                        AutoSync(committed.fs, vault_name, config.val, env)))),
                master_key.prompted))

\* String::from_utf8 of decrypted bytes
FromUtf8(bytes) ==
    IF "utf8" \in DOMAIN bytes THEN Ok(bytes.utf8) ELSE Err("Other")

\* commands/get.rs
GetCommand(F, vault_name, key, typed, t, r) ==
    IF ~VaultExists(F, vault_name) THEN WithPrompt(Fail(F, "VaultNotFound"), FALSE)
    ELSE
    AndThen(GetMasterKey(F, vault_name, typed, t, r), LAMBDA master_key :
        WithPrompt(
            AndThen(LoadEntry(master_key.fs, vault_name, key, master_key.val),
                    LAMBDA entry :
            AndThen(Lift(entry.fs, Decrypt(entry.val.value, master_key.val)),
                    LAMBDA decrypted :
                Lift(entry.fs, FromUtf8(decrypted.val)))),
            master_key.prompted))

\* commands/edit.rs: choice "1" replaces the value, choice "8" cancels.
EditCommand(F, vault_name, key, choice, value, typed, t, r) ==
    IF ~VaultExists(F, vault_name) THEN WithPrompt(Fail(F, "VaultNotFound"), FALSE)
    ELSE
    AndThen(GetMasterKey(F, vault_name, typed, t, r), LAMBDA master_key :
        WithPrompt(
            AndThen(LoadEntry(master_key.fs, vault_name, key, master_key.val),
                    LAMBDA entry :
            AndThen(Lift(entry.fs, Decrypt(entry.val.value, master_key.val)),
                    LAMBDA current_decrypted :
            AndThen(Lift(entry.fs, FromUtf8(current_decrypted.val)),
                    LAMBDA current_value :
                IF choice # "1" THEN Done(entry.fs, "unit")
                ELSE LET encrypted_value ==
                             Encrypt(Utf8(value), master_key.val, NextRnd(r))
                         edited == [entry.val EXCEPT !.value = encrypted_value,
                                                     !.updated_at = t]
                     IN  StoreEntry(entry.fs, vault_name, edited, master_key.val,
                                    NextRnd(NextRnd(r)))))),
            master_key.prompted))

\* commands/move_cmd.rs
MoveCommand(F, vault_name, from, to, typed, t, r) ==
    IF ~VaultExists(F, vault_name) THEN WithPrompt(Fail(F, "VaultNotFound"), FALSE)
    ELSE
    AndThen(GetMasterKey(F, vault_name, typed, t, r), LAMBDA master_key :
        WithPrompt(
            AndThen(LoadEntry(master_key.fs, vault_name, from, master_key.val),
                    LAMBDA entry :
            AndThen(StoreEntry(entry.fs, vault_name, [entry.val EXCEPT !.key = to],
                               master_key.val, NextRnd(NextRnd(r))), LAMBDA stored :
                DeleteEntry(stored.fs, vault_name, from))),
            master_key.prompted))

\* commands/remove.rs with --force
RemoveCommand(F, vault_name, key, env) ==
    IF ~VaultExists(F, vault_name) THEN Fail(F, "VaultNotFound")
    ELSE
    AndThen(DeleteEntry(F, vault_name, key), LAMBDA deleted :
        IF ~GitIsRepo(deleted.fs, vault_name) THEN Done(deleted.fs, "unit")
        ELSE
        AndThen(GitCommit(deleted.fs, vault_name, [verb |-> "Remove", key |-> key], env),
                LAMBDA committed :
        AndThen(LoadConfig(committed.fs, vault_name), LAMBDA config :
            AutoSync(config.fs, vault_name, config.val, env))))

\* The loop of commands/import.rs over the entries parsed from the file.
RECURSIVE ImportLoop(_, _, _, _, _, _, _, _)
ImportLoop(F, vault_name, import_entries, overwrite, master_key, t, r, counts) ==
    IF import_entries = <<>> THEN Done(F, counts)
    ELSE LET import_entry == Head(import_entries)
             metadata == [DefaultMetadata EXCEPT
                             !.tags = import_entry.tags, !.notes = import_entry.notes,
                             !.url = import_entry.url,
                             !.username = import_entry.username]
             encrypted_value == Encrypt(Utf8(import_entry.value), master_key, r)
             entry == [id |-> UuidV4(r), key |-> import_entry.key,
                       value |-> encrypted_value, metadata |-> metadata,
                       created_at |-> import_entry.created_at, updated_at |-> t,
                       accessed_at |-> "None"]
         IN  IF LoadEntry(F, vault_name, import_entry.key, master_key).ok /\ ~overwrite
             THEN ImportLoop(F, vault_name, Tail(import_entries), overwrite, master_key,
                             t, r, [counts EXCEPT !.skipped = @ + 1])
             ELSE AndThen(StoreEntry(F, vault_name, entry, master_key, NextRnd(r)),
                          LAMBDA stored :
                      ImportLoop(stored.fs, vault_name, Tail(import_entries), overwrite,
                                 master_key, t, NextRnd(NextRnd(r)),
                                 [counts EXCEPT !.imported = @ + 1]))

\* commands/import.rs; `content` is the file, read and parsed as `format`.
ImportCommand(F, vault_name, content, format, overwrite, typed, t, r) ==
    IF ~VaultExists(F, vault_name) THEN WithPrompt(Fail(F, "VaultNotFound"), FALSE)
    ELSE
    AndThen(GetMasterKey(F, vault_name, typed, t, r), LAMBDA master_key :
        WithPrompt(
            IF format \notin {"json", "csv"} THEN Fail(master_key.fs, "Other")
            ELSE IF content.format # format THEN Fail(master_key.fs, "SerializationError")
            ELSE ImportLoop(master_key.fs, vault_name, content.entries, overwrite,
                            master_key.val, t, NextRnd(NextRnd(r)),
                            [imported |-> 0, skipped |-> 0]),
            master_key.prompted))

\* commands/import_vault.rs; `file` is the export file, `confirm` the answer
\* to "Vault already exists. Overwrite?".
ImportVaultCommand(F, file, password, name, confirm) ==
    IF ~file.present THEN Fail(F, "Other")
    ELSE IF VaultExists(F, name) /\ ~confirm THEN Done(F, "unit")
    ELSE
    AndThen(IF VaultExists(F, name) THEN FsRemoveDirAll(F, VaultDir[name])
            ELSE Done(F, "unit"), LAMBDA removed :
    AndThen(ImportVault(removed.fs, file.data, password, name), LAMBDA imported :
    AndThen(ConfigLoad(imported.fs), LAMBDA config :
        ThenOk(ConfigSave(config.fs, [config.val EXCEPT !.default_vault = name]),
               "unit"))))

\* commands/pull.rs
PullCommand(F, vault_name, origin) ==
    IF ~VaultExists(F, vault_name) THEN Fail(F, "VaultNotFound")
    ELSE IF ~GitIsRepo(F, vault_name) THEN Fail(F, "Other")
    ELSE
    AndThen(LoadConfig(F, vault_name), LAMBDA config :
        IF config.val.git_remote = "None" THEN Fail(F, "Other")
        ELSE GitPull(config.fs, vault_name, origin))

\* commands/vault.rs, delete_vault; `confirmed` is --force or the answer yes
\* to "Delete vault?".
DeleteVaultCommand(F, name, confirmed) ==
    AndThen(ConfigLoad(F), LAMBDA config :
        IF name = DefaultVault \/ name = config.val.default_vault
        THEN Fail(config.fs, "Other")
        ELSE IF ~VaultExists(config.fs, name) THEN Fail(config.fs, "Other")
        ELSE IF ~confirmed THEN Done(config.fs, "unit")
        ELSE FsRemoveDirAll(config.fs, VaultDir[name]))

\* commands/lock.rs
LockCommand(F, vault_name) == ClearSession(F, vault_name)

\* commands/unlock.rs
UnlockCommand(F, vault_name, typed, t, r) ==
    IF ~VaultExists(F, vault_name) THEN WithPrompt(Fail(F, "VaultNotFound"), FALSE)
    ELSE
    AndThen(GetMasterKey(F, vault_name, typed, t, r), LAMBDA master_key :
        WithPrompt(Done(master_key.fs, "unit"), master_key.prompted))

----------------------------------------------------------------------------
(* The clipboard (utils::copy_to_clipboard).  `by` is who wrote the contents *)
(* last (ghost), `wiped` is what the clipboard held, and by whom, when the  *)
(* eraser last emptied it (ghost).  The eraser is the thread spawned by the copy: it sleeps `left`  *)
(* seconds, reads the clipboard into `current`, compares, and clears.        *)

NoEraser == [pc |-> "none", clear_text |-> "", current |-> "", left |-> 0]
NoClipboard ==
    [contents |-> "", by |-> "none", wiped |-> [contents |-> "", by |-> "none"],
     eraser |-> NoEraser]

\* copy_to_clipboard up to its return: set_contents, then thread::spawn.
CopyToClipboard(C, text, timeout_seconds) ==
    [C EXCEPT !.contents = text, !.by = "copy",
              !.eraser = IF timeout_seconds > 0
                         THEN [pc |-> "sleep", clear_text |-> text, current |-> "",
                               left |-> timeout_seconds]
                         ELSE @]

\* One second of thread::sleep.
EraserSleep(C) == [C EXCEPT !.eraser.left = @ - 1]

\* ClipboardProvider::new() and ctx.get_contents() of the eraser.
EraserGetContents(C) == [C EXCEPT !.eraser.pc = "got", !.eraser.current = C.contents]

\* `if current == clear_text { let _ = ctx.set_contents(String::new()); }`
EraserClear(C) ==
    IF C.eraser.current = C.eraser.clear_text
    THEN [C EXCEPT !.contents = "", !.by = "eraser",
                   !.wiped = [contents |-> C.contents, by |-> C.by],
                   !.eraser.pc = "done"]
    ELSE [C EXCEPT !.eraser.pc = "done"]

\* The eraser ends without clearing: the clipboard cannot be opened or read,
\* or the process ends before the thread has run.
EraserEnd(C) == [C EXCEPT !.eraser.pc = "done"]

----------------------------------------------------------------------------
(* Storage::search_entries.  For matching, a string is spelled as its        *)
(* sequence of characters.                                                   *)

Spell(s) ==
    CASE s = ".json" -> <<".", "j", "s", "o", "n">>
      [] s = ".." -> <<".", ".">>
      [] s = "me" -> <<"m", "e">>
      [] s = "Me" -> <<"M", "e">>
      [] s = "work" -> <<"w", "o", "r", "k">>
      [] s = "pin" -> <<"p", "i", "n">>
      [] s = "token" -> <<"t", "o", "k", "e", "n">>
      [] OTHER -> <<s>>

\* The characters of a text written as atoms.
RECURSIVE TextChars(_)
TextChars(text) ==
    IF text = <<>> THEN <<>> ELSE Spell(Head(text)) \o TextChars(Tail(text))

\* char::to_lowercase of the letters of the model.
LowerChar(c) ==
    IF \E i \in DOMAIN Uppercase : Uppercase[i] = c
    THEN Lowercase[CHOOSE i \in DOMAIN Uppercase : Uppercase[i] = c]
    ELSE c

ToLowercase(chars) == [i \in DOMAIN chars |-> LowerChar(chars[i])]

\* str::contains
Contains(hay, needle) ==
    \E i \in 0 .. (Len(hay) - Len(needle)) : SubSeq(hay, i + 1, i + Len(needle)) = needle

Matches(s, query_lower) == Contains(ToLowercase(Spell(s)), query_lower)

\* load_entry of a key that list_entries returned.
LoadListedEntry(F, vault_name, key, master_key) ==
    LET entry_path == ListedEntryFile(vault_name, key)
        entry_data == FsRead(F, entry_path)
        parsed == EntryFromJson(entry_data.val)
        decrypted_value == Decrypt(parsed.val.value, master_key)
        value == EncryptedValueFromJson(decrypted_value.val)
    IN  IF ~PathExists(F, entry_path) THEN Fail(F, "EntryNotFound")
        ELSE IF ~entry_data.ok THEN entry_data
        ELSE IF ~parsed.ok THEN Fail(F, parsed.err)
        ELSE IF ~decrypted_value.ok THEN Fail(F, decrypted_value.err)
        ELSE IF ~value.ok THEN Fail(F, value.err)
        ELSE Done(F, [parsed.val EXCEPT !.value = value.val])

\* The seven checks of search_entries on one loaded entry.
FoundMatch(entry_key, entry, decrypted_str, query_lower) ==
    \/ Contains(ToLowercase(TextChars(entry_key)), query_lower)
    \/ Matches(decrypted_str, query_lower)
    \/ entry.metadata.username # "None" /\ Matches(entry.metadata.username, query_lower)
    \/ entry.metadata.notes # "None" /\ Matches(entry.metadata.notes, query_lower)
    \/ entry.metadata.url # "None" /\ Matches(entry.metadata.url, query_lower)
    \/ \E i \in DOMAIN entry.metadata.tags : Matches(entry.metadata.tags[i], query_lower)
    \/ \E field \in entry.metadata.custom_fields : Matches(field[2], query_lower)

\* The loop of search_entries over the listed keys.
RECURSIVE SearchLoop(_, _, _, _, _, _)
SearchLoop(F, vault_name, entries, query, key, results) ==
    IF entries = <<>> THEN Done(F, results)
    ELSE LET entry_key == Head(entries)
             loaded == LoadListedEntry(F, vault_name, entry_key, key)
             decrypted_value == Decrypt(loaded.val.value, key)
             decrypted_str == FromUtf8(decrypted_value.val)
             found_match == FoundMatch(entry_key, loaded.val, decrypted_str.val,
                                       ToLowercase(query))
         IN  IF ~loaded.ok
             THEN SearchLoop(F, vault_name, Tail(entries), query, key, results)
             ELSE IF ~decrypted_value.ok THEN Fail(F, decrypted_value.err)
             ELSE IF ~decrypted_str.ok THEN Fail(F, decrypted_str.err)
             ELSE SearchLoop(F, vault_name, Tail(entries), query, key,
                             IF found_match
                             THEN Append(results, <<entry_key, loaded.val>>)
                             ELSE results)

SearchEntries(F, vault_name, query, key) ==
    AndThen(ListEntries(F, vault_name), LAMBDA entries :
        SearchLoop(entries.fs, vault_name, entries.val, query, key, <<>>))

----------------------------------------------------------------------------
(* Inputs *)

Passwords == {Typed("p1"), Typed("p2")}
VaultIds == {"i1", "i2"}
Secrets == {"x", "y"}

RichMetadata ==
    [entry_type |-> [variant |-> "Custom", arg |-> "token"],
     tags |-> <<"work">>, notes |-> "n", url |-> "u", username |-> "me",
     custom_fields |-> {<<"pin", "1">>}, expires_at |-> "None", auto_type |-> "None"]

\* An Entry as the commands build it (add.rs:68-79): the value is the secret
\* encrypted under the master key.
NewEntry(id, key, secret, metadata, created, updated, master_key, r) ==
    [id |-> id, key |-> key, value |-> Encrypt(Utf8(secret), master_key, r),
     metadata |-> metadata, created_at |-> created, updated_at |-> updated,
     accessed_at |-> "None"]

StoreMasterKeys == {DeriveKey(pw, UuidAsBytes("i1")) : pw \in Passwords}
StoreRnds == {Rnd("n3", "s3")}

SampleEntries(key, master_key) ==
    {NewEntry("e1", key, "x", DefaultMetadata, 0, 0, master_key, Rnd("n1", "s1")),
     NewEntry("e2", key, "y", RichMetadata, 0, 1, master_key, Rnd("n2", "s2"))}

SampleConfig(id, name, time) ==
    [id |-> id, name |-> name, created_at |-> time, last_modified |-> time,
     encryption |-> DefaultEncryptionConfig, git_remote |-> "None",
     auto_sync |-> TRUE, auto_lock_minutes |-> 15]

----------------------------------------------------------------------------
(* State *)

CmdKeys == {<<"a">>, <<"a", "/", "b">>}
NoValue == [value |-> "none", until |-> 0]

NoHistory ==
    [live |-> {},                       \* keys stored and not deleted
     session |-> [held |-> FALSE],      \* the master key last stored, if not cleared
     init |-> [done |-> FALSE],         \* the password and vault id chosen at init
     kept |-> [k \in CmdKeys |-> NoValue],  \* the value last added under a key
     exported |-> [done |-> FALSE]]     \* the source vault at the last export

Init ==
    /\ fs = EmptyFs
    /\ now = [t |-> 0, ticks |-> 0]
    /\ envelope = [present |-> FALSE]
    /\ out = [op |-> "none"]
    /\ hist = NoHistory
    /\ clipboard = NoClipboard

EntryFiles(F, vault_name) ==
    {p \in DOMAIN F.files :
        IsPrefix(StoreDir[vault_name], p) /\ F.files[p].json = "Entry"}

----------------------------------------------------------------------------
(* The Storage interface, called directly (SpecStore)                        *)

SInitVault ==
    /\ ~VaultExists(fs, V)
    /\ LET res == InitVault(fs, V, SampleConfig("i1", V, now.t))
       IN  /\ fs' = res.fs
           /\ out' = [op |-> "init_vault", ok |-> res.ok]
    /\ UNCHANGED <<clipboard, now, envelope, hist>>

SStoreEntry(entry, master_key, r) ==
    /\ VaultExists(fs, V)
    /\ \/ Cardinality(EntryFiles(fs, V)) < MaxEntries
       \/ IsFile(fs, EntryFile[V, entry.key])
    /\ LET res == StoreEntry(fs, V, entry, master_key, r)
       IN  /\ fs' = res.fs
           /\ out' = [op |-> "store_entry", ok |-> res.ok, entry |-> entry,
                      master_key |-> master_key]
           /\ hist' = [hist EXCEPT !.live = IF res.ok THEN @ \cup {entry.key} ELSE @]
    /\ UNCHANGED <<clipboard, now, envelope>>

SLoadEntry(key, master_key) ==
    /\ VaultExists(fs, V)
    /\ LET res == LoadEntry(fs, V, key, master_key)
       IN  /\ fs' = res.fs
           /\ out' = [op |-> "load_entry", ok |-> res.ok, key |-> key,
                      master_key |-> master_key,
                      res |-> IF res.ok THEN Ok(res.val) ELSE Err(res.err)]
    /\ UNCHANGED <<clipboard, now, envelope, hist>>

SDeleteEntry(key) ==
    /\ VaultExists(fs, V)
    /\ LET res == DeleteEntry(fs, V, key)
       IN  /\ fs' = res.fs
           /\ out' = [op |-> "delete_entry", ok |-> res.ok, key |-> key]
           /\ hist' = [hist EXCEPT !.live = IF res.ok THEN @ \ {key} ELSE @]
    /\ UNCHANGED <<clipboard, now, envelope>>

SListEntries ==
    /\ VaultExists(fs, V)
    /\ LET res == ListEntries(fs, V)
       IN  /\ fs' = res.fs
           /\ out' = [op |-> "list_entries", ok |-> res.ok,
                      res |-> IF res.ok THEN Ok(res.val) ELSE Err(res.err)]
    /\ UNCHANGED <<clipboard, now, envelope, hist>>

NextStore ==
    \/ SInitVault
    \/ \E key \in StoreKeys, master_key \in StoreMasterKeys, r \in StoreRnds :
          \E entry \in SampleEntries(key, master_key) :
             SStoreEntry(entry, master_key, r)
    \/ \E key \in StoreKeys, master_key \in StoreMasterKeys : SLoadEntry(key, master_key)
    \/ \E key \in StoreKeys : SDeleteEntry(key)
    \/ SListEntries

SpecStore == Init /\ [][NextStore]_vars

----------------------------------------------------------------------------
(* The session functions of Storage, called directly (SpecSession)           *)

\* The clock advances to the last day of a session written at the start, or
\* to the day after.
TickDays == {SessionDays, SessionDays + 1}

Tick(days) ==
    /\ now.ticks < MaxTicks
    /\ now' = [t |-> now.t + days, ticks |-> now.ticks + 1]
    /\ out' = [op |-> "tick"]
    /\ UNCHANGED <<clipboard, fs, envelope, hist>>

XInitVault(id) ==
    /\ LET res == InitVault(fs, V, SampleConfig(id, V, now.t))
       IN  /\ fs' = res.fs
           /\ out' = [op |-> "init_vault", ok |-> res.ok]
    /\ UNCHANGED <<clipboard, now, envelope, hist>>

XStoreMasterKeyPermanently(master_key, r) ==
    /\ LET res == StoreMasterKeyPermanently(fs, V, master_key, now.t, r)
       IN  /\ fs' = res.fs
           /\ out' = [op |-> "store_master_key_permanently", ok |-> res.ok,
                      master_key |-> master_key]
           /\ hist' = [hist EXCEPT !.session =
                          IF res.ok
                          THEN [held |-> TRUE, master_key |-> master_key,
                                stored_at |-> now.t,
                                vault_id |-> LoadConfig(fs, V).val.id]
                          ELSE @]
    /\ UNCHANGED <<clipboard, now, envelope>>

XLoadMasterKeyPermanently ==
    /\ LET res == LoadMasterKeyPermanently(fs, V, now.t)
       IN  /\ fs' = res.fs
           /\ out' = [op |-> "load_master_key_permanently", ok |-> res.ok,
                      res |-> IF res.ok THEN Ok(res.val) ELSE Err(res.err)]
    /\ UNCHANGED <<clipboard, now, envelope, hist>>

XClearSession ==
    /\ LET res == ClearSession(fs, V)
       IN  /\ fs' = res.fs
           /\ out' = [op |-> "clear_session", ok |-> res.ok]
           /\ hist' = [hist EXCEPT !.session = IF res.ok THEN [held |-> FALSE] ELSE @]
    /\ UNCHANGED <<clipboard, now, envelope>>

SessionRnds == {Rnd("n4", "s4"), Rnd("n5", "s5")}

NextSession ==
    \/ \E id \in VaultIds : XInitVault(id)
    \/ \E master_key \in StoreMasterKeys, r \in SessionRnds :
          XStoreMasterKeyPermanently(master_key, r)
    \/ XLoadMasterKeyPermanently
    \/ XClearSession
    \/ \E days \in TickDays : Tick(days)

SpecSession == Init /\ [][NextSession]_vars

----------------------------------------------------------------------------
(* The commands on vault V (Spec)                                            *)

TypedInputs == Passwords \cup {Typed("")}
InitPasswords == {Typed("p1"), Typed("")}
CmdRnds == {Rnd("n6", "s6")}
CmdIds == {"i1"}

\* What a run of a command showed: its result, whether it prompted for the
\* master password, and what was typed if it did.
Report(op, key, typed, res) ==
    LET prompted == IF "prompted" \in DOMAIN res THEN res.prompted ELSE FALSE
    IN  [op |-> op, key |-> key, ok |-> res.ok,
         res |-> IF res.ok THEN Ok(res.val) ELSE Err(res.err),
         prompted |-> prompted, typed |-> IF prompted THEN typed ELSE Typed("")]

\* The day the session file on disk expires.
SessionUntil(F) == SessionFromJson(F.files[SessionFile[V]]).val.expires_at

CmdInit(typed, id, r) ==
    /\ \E res \in {InitCommand(fs, V, typed, id, now.t, r, NoGit, NoFault)} :
           /\ fs' = res.fs
           /\ out' = Report("init", <<>>, typed, [prompted |-> TRUE] @@ res)
           /\ hist' = [hist EXCEPT !.init =
                          IF res.ok THEN [done |-> TRUE, password |-> typed, vault_id |-> id]
                          ELSE @]
    /\ UNCHANGED <<clipboard, now, envelope>>

CmdAdd(key, value, typed, r) ==
    /\ \E res \in {AddCommand(fs, V, key, value, typed, now.t, r, NoFault)} :
           /\ fs' = res.fs
           /\ out' = Report("add", key, typed, res)
           /\ hist' = [hist EXCEPT !.kept[key] =
                          IF res.ok THEN [value |-> value, until |-> SessionUntil(res.fs)]
                          ELSE @]
    /\ UNCHANGED <<clipboard, now, envelope>>

CmdGet(key, typed, r) ==
    /\ \E res \in {GetCommand(fs, V, key, typed, now.t, r)} :
           /\ fs' = res.fs
           /\ out' = Report("get", key, typed, res)
    /\ UNCHANGED <<clipboard, now, envelope, hist>>

CmdEdit(key, choice, value, typed, r) ==
    /\ \E res \in {EditCommand(fs, V, key, choice, value, typed, now.t, r)} :
           /\ fs' = res.fs
           /\ out' = Report("edit", key, typed, res)
           /\ hist' = [hist EXCEPT !.kept[key] = NoValue]
    /\ UNCHANGED <<clipboard, now, envelope>>

CmdMove(from, to, typed, r) ==
    /\ \E res \in {MoveCommand(fs, V, from, to, typed, now.t, r)} :
           /\ fs' = res.fs
           /\ out' = Report("mv", from, typed, res)
           /\ hist' = [hist EXCEPT !.kept[from] = NoValue, !.kept[to] = NoValue]
    /\ UNCHANGED <<clipboard, now, envelope>>

CmdRemove(key) ==
    /\ \E res \in {RemoveCommand(fs, V, key, NoFault)} :
           /\ fs' = res.fs
           /\ out' = Report("remove", key, Typed(""), res)
           /\ hist' = [hist EXCEPT !.kept[key] = NoValue]
    /\ UNCHANGED <<clipboard, now, envelope>>

CmdLock ==
    /\ \E res \in {LockCommand(fs, V)} :
           /\ fs' = res.fs
           /\ out' = Report("lock", <<>>, Typed(""), res)
           /\ hist' = [hist EXCEPT !.kept = [k \in CmdKeys |-> NoValue]]
    /\ UNCHANGED <<clipboard, now, envelope>>

CmdUnlock(typed, r) ==
    /\ \E res \in {UnlockCommand(fs, V, typed, now.t, r)} :
           /\ fs' = res.fs
           /\ out' = Report("unlock", <<>>, typed, res)
    /\ UNCHANGED <<clipboard, now, envelope, hist>>

\* What the user may type: nothing is typed to a command that does not prompt.
Answers ==
    IF LoadMasterKeyPermanently(fs, V, now.t).ok THEN {Typed("")} ELSE TypedInputs

\* The answers to the menu of edit: a new value, or cancel.
EditChoices == {<<"1", value>> : value \in Secrets} \cup {<<"8", "">>}

Next ==
    \/ \E typed \in InitPasswords, id \in CmdIds, r \in CmdRnds : CmdInit(typed, id, r)
    \/ \E key \in CmdKeys, value \in Secrets, typed \in Answers, r \in CmdRnds :
          CmdAdd(key, value, typed, r)
    \/ \E key \in CmdKeys, typed \in Answers, r \in CmdRnds : CmdGet(key, typed, r)
    \/ \E key \in CmdKeys, choice \in EditChoices, typed \in Answers, r \in CmdRnds :
          CmdEdit(key, choice[1], choice[2], typed, r)
    \/ \E from \in CmdKeys, to \in CmdKeys, typed \in Answers, r \in CmdRnds :
          CmdMove(from, to, typed, r)
    \/ \E key \in CmdKeys : CmdRemove(key)
    \/ CmdLock
    \/ \E typed \in Answers, r \in CmdRnds : CmdUnlock(typed, r)
    \/ Tick(SessionDays + 1)

Spec == Init /\ [][Next]_vars

----------------------------------------------------------------------------
(* Crypto::encrypt and Crypto::decrypt on sampled inputs (SpecCrypto)        *)

CryptoKeys == {DeriveKey(pw, UuidAsBytes(id)) : pw \in Passwords, id \in VaultIds}
CryptoRnds == {Rnd("n1", "s1"), Rnd("n2", "s2")}
Plaintexts ==
    {Utf8(""), Utf8("x"), Utf8("y"),
     EncryptedValueToJson(Encrypt(Utf8("x"), DeriveKey(Typed("p1"), UuidAsBytes("i1")),
                                  Rnd("n1", "s1")))}

CEncrypt(data, key, r) ==
    /\ out' = [op |-> "encrypt", data |-> data, key |-> key,
               encrypted |-> Encrypt(data, key, r)]
    /\ UNCHANGED <<clipboard, fs, now, envelope, hist>>

CDecrypt(key) ==
    /\ out.op \in {"encrypt", "decrypt"}
    /\ out' = [op |-> "decrypt", data |-> out.data, key |-> out.key,
               encrypted |-> out.encrypted, with |-> key,
               res |-> Decrypt(out.encrypted, key)]
    /\ UNCHANGED <<clipboard, fs, now, envelope, hist>>

NextCrypto ==
    \/ \E data \in Plaintexts, key \in CryptoKeys, r \in CryptoRnds : CEncrypt(data, key, r)
    \/ \E key \in CryptoKeys : CDecrypt(key)

SpecCrypto == Init /\ [][NextCrypto]_vars

----------------------------------------------------------------------------
(* Export of vault V and import as vault W (SpecPort).  The export file is   *)
(* the variable `envelope`; between export and import it can be altered.     *)

PortKeys == {<<"a">>, <<"a", ".json">>, <<"a", "/", "b">>}
PortMasterKey == DeriveKey(Typed("p1"), UuidAsBytes("i1"))
PortRnds == {Rnd("n7", "s7")}
PortPasswords == {Typed("q1"), Typed("q2")}

\* The ciphertext in the export file is not the one that was exported.
CiphertextChanged ==
    envelope.present /\ envelope.data.encrypted_data # envelope.original.encrypted_data

PExportVault(password, r) ==
    /\ VaultExists(fs, V)
    /\ LET res == ExportVault(fs, V, password, now.t, r)
       IN  /\ fs' = res.fs
           /\ envelope' = IF res.ok
                          THEN [present |-> TRUE, data |-> res.val, original |-> res.val]
                          ELSE envelope
           /\ out' = [op |-> "export_vault", ok |-> res.ok,
                      res |-> IF res.ok THEN Ok("bytes") ELSE Err(res.err)]
           /\ hist' = [hist EXCEPT !.exported =
                          IF res.ok
                          THEN [done |-> TRUE, password |-> password,
                                keys |-> hist.live,
                                list |-> ListEntries(fs, V).val,
                                files |-> [k \in hist.live |-> fs.files[EntryFile[V, k]]],
                                config |-> LoadConfig(fs, V).val]
                          ELSE @]
    /\ UNCHANGED <<clipboard, now>>

\* One byte of a part of the export file is changed.
PAlter(part) ==
    /\ envelope.present
    /\ envelope.data = envelope.original
    /\ envelope' = [envelope EXCEPT !.data =
          IF part = "ciphertext"
          THEN [@ EXCEPT !.encrypted_data =
                   Base64Encode([@.base64 EXCEPT !.flipped = 1])]
          ELSE [@ EXCEPT !.nonce =
                   Base64Encode([@.base64 EXCEPT !.call = @ + 1])]]
    /\ out' = [op |-> "alter", part |-> part]
    /\ UNCHANGED <<clipboard, fs, now, hist>>

PImportVault(password) ==
    /\ envelope.present
    /\ LET res == ImportVault(fs, envelope.data, password, W)
       IN  /\ fs' = res.fs
           /\ out' = [op |-> "import_vault", ok |-> res.ok,
                      res |-> IF res.ok THEN Ok(res.val) ELSE Err(res.err),
                      on_empty |-> ~PathExists(fs, VaultDir[W]),
                      altered |-> envelope.data # envelope.original,
                      ciphertext_changed |-> CiphertextChanged,
                      password |-> password,
                      wrote |-> res.fs # fs]
    /\ UNCHANGED <<clipboard, now, envelope, hist>>

NextPort ==
    \/ SInitVault
    \/ \E key \in PortKeys, r \in PortRnds :
          \E entry \in SampleEntries(key, PortMasterKey) :
             SStoreEntry(entry, PortMasterKey, r)
    \/ \E password \in PortPasswords, r \in PortRnds : PExportVault(password, r)
    \/ \E part \in {"ciphertext", "nonce"} : PAlter(part)
    \/ \E password \in PortPasswords : PImportVault(password)

SpecPort == Init /\ [][NextPort]_vars

----------------------------------------------------------------------------
(* store_entry and delete_entry on nested keys (SpecDelete).  The result of  *)
(* a delete keeps the filesystem it started from.                            *)

AllEntryFiles(F) == {p \in DOMAIN F.files : F.files[p].json = "Entry"}

DStoreEntry(entry, master_key, r) ==
    /\ VaultExists(fs, V)
    /\ \/ Cardinality(AllEntryFiles(fs)) < MaxEntries
       \/ IsFile(fs, EntryFile[V, entry.key])
    /\ \E res \in {StoreEntry(fs, V, entry, master_key, r)} :
           /\ fs' = res.fs
           /\ out' = [op |-> "store_entry", ok |-> res.ok, key |-> entry.key]
    /\ UNCHANGED <<clipboard, now, envelope, hist>>

DDeleteEntry(key) ==
    /\ VaultExists(fs, V)
    /\ \E res \in {DeleteEntry(fs, V, key)} :
           /\ fs' = res.fs
           /\ out' = [op |-> "delete_entry", ok |-> res.ok, key |-> key,
                      before |-> fs]
    /\ UNCHANGED <<clipboard, now, envelope, hist>>

NextDelete ==
    \/ SInitVault
    \/ \E key \in DeleteKeys, master_key \in StoreMasterKeys, r \in StoreRnds :
          \E entry \in SampleEntries(key, master_key) :
             DStoreEntry(entry, master_key, r)
    \/ \E key \in DeleteKeys : DDeleteEntry(key)

SpecDelete == Init /\ [][NextDelete]_vars

----------------------------------------------------------------------------
(* The commands on a vault that is a history repository (SpecGit).  The      *)
(* user types the master password p1 whenever asked; the result of a command *)
(* keeps the filesystem it started from and the faults of the adaptor.       *)

MaxCommits == 2
GitKeys == {<<"a">>, <<"b">>}
GitRemotes == {"None", "origin"}

\* The number of commits of the repository of V (0 without a repository).
Commits(F) == IF GitIsRepo(F, V) THEN Len(GitRepo(F, V).commits) ELSE 0

GitReport(op, key, res, env) ==
    [op |-> op, key |-> key, ok |-> res.ok,
     res |-> IF res.ok THEN Ok(res.val) ELSE Err(res.err),
     env |-> env, before |-> fs]

GInit(remote, env) ==
    /\ \E res \in {InitCommand(fs, V, Typed("p1"), "i1", now.t, Rnd("n6", "s6"),
                                [git |-> TRUE, remote |-> remote], env)} :
           /\ fs' = res.fs
           /\ out' = GitReport("init", <<>>, res, env)
    /\ UNCHANGED <<clipboard, now, envelope, hist>>

GAdd(key, env) ==
    /\ Commits(fs) < MaxCommits
    /\ \E res \in {AddCommand(fs, V, key, "x", Typed("p1"), now.t, Rnd("n6", "s6"), env)} :
           /\ fs' = res.fs
           /\ out' = GitReport("add", key, res, env)
    /\ UNCHANGED <<clipboard, now, envelope, hist>>

GEdit(key) ==
    /\ \E res \in {EditCommand(fs, V, key, "1", "y", Typed("p1"), now.t,
                                Rnd("n7", "s7"))} :
           /\ fs' = res.fs
           /\ out' = GitReport("edit", key, res, NoFault)
    /\ UNCHANGED <<clipboard, now, envelope, hist>>

GMove(from, to) ==
    /\ \E res \in {MoveCommand(fs, V, from, to, Typed("p1"), now.t, Rnd("n6", "s6"))} :
           /\ fs' = res.fs
           /\ out' = GitReport("mv", from, res, NoFault)
    /\ UNCHANGED <<clipboard, now, envelope, hist>>

GRemove(key, env) ==
    /\ Commits(fs) < MaxCommits
    /\ \E res \in {RemoveCommand(fs, V, key, env)} :
           /\ fs' = res.fs
           /\ out' = GitReport("remove", key, res, env)
    /\ UNCHANGED <<clipboard, now, envelope, hist>>

NextGit ==
    \/ \E remote \in GitRemotes, env \in Faults : GInit(remote, env)
    \/ \E key \in GitKeys, env \in Faults : GAdd(key, env)
    \/ \E key \in GitKeys : GEdit(key)
    \/ \E from \in GitKeys, to \in GitKeys : GMove(from, to)
    \/ \E key \in GitKeys, env \in Faults : GRemove(key, env)

SpecGit == Init /\ [][NextGit]_vars

----------------------------------------------------------------------------
(* copy_to_clipboard, its eraser thread and the other programs that write   *)
(* the clipboard (SpecClip).  A command is a process of its own: a copy is   *)
(* run when the eraser of the copy before it has ended.                      *)

MaxTimeout == 2
Timeouts == 0 .. MaxTimeout
CopyTexts == {"x", "y"}
OtherTexts == {"o", ""}

KCopy(text, timeout_seconds) ==
    /\ clipboard.eraser.pc \in {"none", "done"}
    /\ clipboard' = CopyToClipboard(clipboard, text, timeout_seconds)
    /\ UNCHANGED <<fs, now, envelope, out, hist>>

KSleep ==
    /\ clipboard.eraser.pc = "sleep"
    /\ clipboard.eraser.left > 0
    /\ clipboard' = EraserSleep(clipboard)
    /\ UNCHANGED <<fs, now, envelope, out, hist>>

KGetContents ==
    /\ clipboard.eraser.pc = "sleep"
    /\ clipboard.eraser.left = 0
    /\ clipboard' = EraserGetContents(clipboard)
    /\ UNCHANGED <<fs, now, envelope, out, hist>>

KClear ==
    /\ clipboard.eraser.pc = "got"
    /\ clipboard' = EraserClear(clipboard)
    /\ UNCHANGED <<fs, now, envelope, out, hist>>

KEnd ==
    /\ clipboard.eraser.pc \in {"sleep", "got"}
    /\ clipboard' = EraserEnd(clipboard)
    /\ UNCHANGED <<fs, now, envelope, out, hist>>

\* Another program sets the clipboard.
KOther(text) ==
    /\ clipboard' = [clipboard EXCEPT !.contents = text, !.by = "other"]
    /\ UNCHANGED <<fs, now, envelope, out, hist>>

NextClip ==
    \/ \E text \in CopyTexts, timeout_seconds \in Timeouts : KCopy(text, timeout_seconds)
    \/ KSleep
    \/ KGetContents
    \/ KClear
    \/ KEnd
    \/ \E text \in OtherTexts : KOther(text)

SpecClip == Init /\ [][NextClip]_vars

\* The eraser thread is scheduled as long as it is alive: each of its steps
\* is taken if it stays enabled.
SpecClipFair ==
    /\ SpecClip
    /\ WF_vars(KSleep)
    /\ WF_vars(KGetContents)
    /\ WF_vars(KClear)

----------------------------------------------------------------------------
(* Crypto::generate_password on sampled options and random draws (SpecGen)   *)

MaxLength == 2
Draws == {0, 1, 8, 11, 14, 25}
CustomCharsets ==
    {NoCharset, SomeCharset(<<>>), SomeCharset(<<"0", "O">>), SomeCharset(<<"a", "b">>)}
AllGenerateOptions ==
    [length : 0 .. MaxLength, use_uppercase : BOOLEAN, use_lowercase : BOOLEAN,
     use_numbers : BOOLEAN, use_symbols : BOOLEAN, exclude_ambiguous : BOOLEAN,
     custom_charset : CustomCharsets]

\* The caller fills in the options.
POptions(options) ==
    /\ out' = [op |-> "options", options |-> options]
    /\ UNCHANGED <<clipboard, fs, now, envelope, hist>>

PGenerate(rng) ==
    /\ out.op \in {"options", "generate_password"}
    /\ out' = [op |-> "generate_password", options |-> out.options,
               password |-> GeneratePassword(out.options, rng)]
    /\ UNCHANGED <<clipboard, fs, now, envelope, hist>>

NextGen ==
    \/ \E options \in AllGenerateOptions : POptions(options)
    \/ \E rng \in [1 .. MaxLength -> Draws] : PGenerate(rng)

SpecGen == Init /\ [][NextGen]_vars

----------------------------------------------------------------------------
(* load_entry on entry files that were altered on disk (SpecLoad)            *)

LoadKeys == {<<"a">>, <<"a", "/", "b">>}
OtherNonce == [random |-> "nz", call |-> 0]
Alterations == {"nonce", "nonce_len", "ciphertext", "ciphertext_len"}

\* The EncryptedValue of an entry file with its nonce or its ciphertext
\* altered, in content or in length.
Alter(value, how) ==
    IF how = "nonce" THEN [value EXCEPT !.nonce = OtherNonce]
    ELSE IF how = "nonce_len" THEN [value EXCEPT !.nonce = Resized(@, NONCE_SIZE - 1)]
    ELSE IF how = "ciphertext" THEN [value EXCEPT !.ciphertext.flipped = 1]
    ELSE [value EXCEPT !.ciphertext = Resized(@, 0)]

\* The stored value is not what store_entry wrote.
Altered(value) ==
    \/ IsResized(value.ciphertext)
    \/ value.ciphertext.flipped # 0
    \/ value.nonce # value.ciphertext.sealed_nonce

\* The key that sealed the stored value.
SealedKey(value) ==
    IF IsResized(value.ciphertext) THEN value.ciphertext.resized.sealed_key
    ELSE value.ciphertext.sealed_key

LStoreEntry(entry, master_key, r) ==
    /\ VaultExists(fs, V)
    /\ \E res \in {StoreEntry(fs, V, entry, master_key, r)} :
           /\ fs' = res.fs
           /\ out' = [op |-> "store_entry", ok |-> res.ok, key |-> entry.key]
    /\ UNCHANGED <<clipboard, now, envelope, hist>>

\* Someone edits the entry file of `key`.
LAlter(key, how) ==
    /\ IsFile(fs, EntryFile[V, key])
    /\ ~Altered(fs.files[EntryFile[V, key]].value)
    /\ fs' = [fs EXCEPT !.files[EntryFile[V, key]].value = Alter(@, how)]
    /\ out' = [op |-> "alter", key |-> key, how |-> how]
    /\ UNCHANGED <<clipboard, now, envelope, hist>>

LLoadEntry(key, master_key) ==
    /\ \E res \in {LoadEntry(fs, V, key, master_key)} :
           /\ fs' = res.fs
           /\ out' = [op |-> "load_entry", ok |-> res.ok, key |-> key,
                      master_key |-> master_key,
                      res |-> IF res.ok THEN Ok(res.val) ELSE Err(res.err)]
    /\ UNCHANGED <<clipboard, now, envelope, hist>>

NextLoad ==
    \/ SInitVault
    \/ \E key \in LoadKeys, master_key \in StoreMasterKeys, r \in StoreRnds :
          \E entry \in SampleEntries(key, master_key) :
             LStoreEntry(entry, master_key, r)
    \/ \E key \in LoadKeys, how \in Alterations : LAlter(key, how)
    \/ \E key \in LoadKeys, master_key \in StoreMasterKeys : LLoadEntry(key, master_key)

SpecLoad == Init /\ [][NextLoad]_vars

----------------------------------------------------------------------------
(* search_entries on a vault filled by store_entry (SpecSearch)              *)

Queries ==
    {<<>>, <<"A">>, <<"M", "E">>, <<"j", "s">>, <<"z">>, <<"1">>, <<"p", "i", "n">>,
     <<"Y">>}

SearchSamples(key, master_key) ==
    {NewEntry("e1", key, "x", DefaultMetadata, 0, 0, master_key, Rnd("n1", "s1")),
     NewEntry("e2", key, "y", [RichMetadata EXCEPT !.username = "Me"], 0, 1,
              master_key, Rnd("n2", "s2"))}

QStoreEntry(entry, master_key, r) ==
    /\ VaultExists(fs, V)
    /\ \/ Cardinality(EntryFiles(fs, V)) < MaxEntries
       \/ IsFile(fs, EntryFile[V, entry.key])
    /\ \E res \in {StoreEntry(fs, V, entry, master_key, r)} :
           /\ fs' = res.fs
           /\ out' = [op |-> "store_entry", ok |-> res.ok, key |-> entry.key]
           /\ hist' = [hist EXCEPT !.live = IF res.ok THEN @ \cup {entry.key} ELSE @]
    /\ UNCHANGED <<clipboard, now, envelope>>

QSearchEntries(query, master_key) ==
    /\ VaultExists(fs, V)
    /\ \E res \in {SearchEntries(fs, V, query, master_key)} :
           /\ fs' = res.fs
           /\ out' = [op |-> "search_entries", ok |-> res.ok, query |-> query,
                      master_key |-> master_key,
                      res |-> IF res.ok THEN Ok(res.val) ELSE Err(res.err)]
    /\ UNCHANGED <<clipboard, now, envelope, hist>>

NextSearch ==
    \/ SInitVault
    \/ \E key \in StoreKeys, master_key \in StoreMasterKeys, r \in StoreRnds :
          \E entry \in SearchSamples(key, master_key) :
             QStoreEntry(entry, master_key, r)
    \/ \E query \in Queries, master_key \in StoreMasterKeys :
          QSearchEntries(query, master_key)

SpecSearch == Init /\ [][NextSearch]_vars

----------------------------------------------------------------------------
(* The import of a plaintext file into vault V (SpecImport)                  *)

ExportEntryOf(key, value) ==
    [key |-> key, value |-> value, username |-> "None", url |-> "None",
     notes |-> "None", tags |-> <<>>, created_at |-> 0, updated_at |-> 0]

ImportFiles ==
    {[format |-> "json", entries |-> <<ExportEntryOf(<<"a">>, "y")>>],
     [format |-> "json",
      entries |-> <<ExportEntryOf(<<"a">>, "x"), ExportEntryOf(<<"a", "/", "b">>, "y")>>],
     [format |-> "csv",
      entries |-> <<ExportEntryOf(<<"a", "/", "b">>, "x"),
                    ExportEntryOf(<<"a", "/", "b">>, "y")>>]}
ImportFormats == {"json", "csv", "xml"}

CmdImport(content, format, overwrite, typed, r) ==
    /\ \E res \in {ImportCommand(fs, V, content, format, overwrite, typed, now.t, r)} :
           /\ fs' = res.fs
           /\ out' = Report("import", <<>>, typed, res)
                        @@ [overwrite |-> overwrite, content |-> content, before |-> fs]
           /\ hist' = [hist EXCEPT !.kept = [k \in CmdKeys |-> NoValue]]
    /\ UNCHANGED <<clipboard, now, envelope>>

NextImport ==
    \/ \E id \in CmdIds, r \in CmdRnds : CmdInit(Typed("p1"), id, r)
    \/ \E key \in CmdKeys, typed \in Answers, r \in CmdRnds : CmdAdd(key, "x", typed, r)
    \/ CmdLock
    \/ \E content \in ImportFiles, format \in ImportFormats, overwrite \in BOOLEAN,
          typed \in Answers, r \in {Rnd("n8", "s8")} :
          CmdImport(content, format, overwrite, typed, r)

SpecImport == Init /\ [][NextImport]_vars

----------------------------------------------------------------------------
(* The command `vault import` on an export file of vault V (SpecVaultImport) *)

VaultImportKeys == {<<"a">>}

\* The export file is edited: it no longer says that it is a bunker export.
VNotExport ==
    /\ envelope.present
    /\ envelope.data = envelope.original
    /\ envelope' = [envelope EXCEPT !.data.bunker_export = FALSE]
    /\ out' = [op |-> "alter", part |-> "bunker_export"]
    /\ UNCHANGED <<clipboard, fs, now, hist>>

VImport(password, name, confirm) ==
    /\ \E res \in {ImportVaultCommand(fs, envelope, password, name, confirm)} :
           /\ fs' = res.fs
           /\ out' = [op |-> "vault_import", ok |-> res.ok, name |-> name,
                      res |-> IF res.ok THEN Ok(res.val) ELSE Err(res.err),
                      confirm |-> confirm, before |-> fs]
           /\ hist' = [hist EXCEPT !.live =
                          {k \in VaultImportKeys : IsFile(res.fs, EntryFile[V, k])}]
    /\ UNCHANGED <<clipboard, now, envelope>>

NextVaultImport ==
    \/ SInitVault
    \/ \E key \in VaultImportKeys, r \in PortRnds :
          \E entry \in SampleEntries(key, PortMasterKey) :
             SStoreEntry(entry, PortMasterKey, r)
    \/ \E r \in PortRnds : PExportVault(Typed("q1"), r)
    \/ \E part \in {"ciphertext", "nonce"} : PAlter(part)
    \/ VNotExport
    \/ \E password \in PortPasswords, name \in VaultNames, confirm \in BOOLEAN :
          VImport(password, name, confirm)

SpecVaultImport == Init /\ [][NextVaultImport]_vars

----------------------------------------------------------------------------
(* Key derivation for vaults with various cost parameters (SpecKdf)          *)

\* The EncryptionConfig values a .vault file may carry: the default one and
\* ones that name other cost parameters.
KdfConfigs ==
    {DefaultEncryptionConfig,
     [DefaultEncryptionConfig EXCEPT !.kdf_iterations = 4],
     [DefaultEncryptionConfig EXCEPT !.kdf_memory = 131072],
     [DefaultEncryptionConfig EXCEPT !.kdf_parallelism = 4]}

KdfRnds == {Rnd("n7", "s7")}

\* The last run that derived a key from a typed password, as the runs of
\* SpecKdf hand it on: the password, the configuration and the key.
NoDerivation == [typed |-> Typed(""), config |-> "None", key |-> "None"]
LastDerivation == IF "derivation" \in DOMAIN out THEN out.derivation ELSE NoDerivation

\* init_vault with a configuration that carries `encryption`.
KInitVault(id, encryption) ==
    /\ LET config == [SampleConfig(id, V, now.t) EXCEPT !.encryption = encryption]
           res == InitVault(fs, V, config)
       IN  /\ fs' = res.fs
           /\ out' = [op |-> "init_vault", ok |-> res.ok, derivation |-> LastDerivation]
    /\ UNCHANGED <<clipboard, now, envelope, hist>>

\* The .vault file rewritten with other cost parameters.
KSaveConfig(encryption) ==
    /\ \E config \in {LoadConfig(fs, V)} :
          /\ config.ok
          /\ LET res == SaveConfig(fs, V, [config.val EXCEPT !.encryption = encryption])
             IN  /\ fs' = res.fs
                 /\ out' = [op |-> "save_config", ok |-> res.ok,
                            derivation |-> LastDerivation]
    /\ UNCHANGED <<clipboard, now, envelope, hist>>

\* get_master_key on a locked or unlocked vault; the run records the password
\* typed and the configuration the vault had.
KGetMasterKey(typed, r) ==
    /\ \E res \in {GetMasterKey(fs, V, typed, now.t, r)}, config \in {LoadConfig(fs, V)} :
          /\ config.ok
          /\ fs' = res.fs
          /\ out' = [op |-> "get_master_key", ok |-> res.ok, res |-> res,
                     earlier |-> LastDerivation,
                     derivation |->
                         IF res.ok /\ res.prompted
                         THEN [typed |-> typed, config |-> config.val, key |-> res.val]
                         ELSE LastDerivation]
    /\ UNCHANGED <<clipboard, now, envelope, hist>>

KClearSession ==
    /\ LET res == ClearSession(fs, V)
       IN  /\ fs' = res.fs
           /\ out' = [op |-> "clear_session", ok |-> res.ok,
                      derivation |-> LastDerivation]
    /\ UNCHANGED <<clipboard, now, envelope, hist>>

NextKdf ==
    \/ \E id \in VaultIds, encryption \in KdfConfigs : KInitVault(id, encryption)
    \/ \E encryption \in KdfConfigs : KSaveConfig(encryption)
    \/ \E typed \in Passwords, r \in KdfRnds : KGetMasterKey(typed, r)
    \/ KClearSession

SpecKdf == Init /\ [][NextKdf]_vars

----------------------------------------------------------------------------
(* The command unlock with its duration (SpecUnlock)                         *)

\* --duration in hours (<<>> when none is given); auto_lock_minutes of the vault.
Durations == {<<>>, <<1>>, <<48>>}
AutoLockMinutes == {15, 1}
UnlockRnds == {Rnd("n8", "s8"), Rnd("n9", "s9")}

UInitVault(id, minutes) ==
    /\ LET config == [SampleConfig(id, V, now.t) EXCEPT !.auto_lock_minutes = minutes]
           res == InitVault(fs, V, config)
       IN  /\ fs' = res.fs
           /\ out' = [op |-> "init_vault", ok |-> res.ok]
    /\ UNCHANGED <<clipboard, now, envelope, hist>>

\* unlock::execute(vault, duration): the duration is printed only
\* (unlock.rs:17-19).  The run records the files it found.
UUnlock(duration, typed, r) ==
    /\ \E res \in {UnlockCommand(fs, V, typed, now.t, r)} :
           /\ fs' = res.fs
           /\ out' = Report("unlock", <<>>, typed, res)
                        @@ [duration |-> duration, before |-> fs]
    /\ UNCHANGED <<clipboard, now, envelope, hist>>

ULock ==
    /\ \E res \in {LockCommand(fs, V)} :
           /\ fs' = res.fs
           /\ out' = Report("lock", <<>>, Typed(""), res)
    /\ UNCHANGED <<clipboard, now, envelope, hist>>

NextUnlock ==
    \/ \E id \in VaultIds, minutes \in AutoLockMinutes : UInitVault(id, minutes)
    \/ \E duration \in Durations, typed \in TypedInputs, r \in UnlockRnds :
          UUnlock(duration, typed, r)
    \/ ULock
    \/ \E days \in TickDays : Tick(days)

SpecUnlock == Init /\ [][NextUnlock]_vars

----------------------------------------------------------------------------
(* The command mv (SpecMove)                                                 *)

\* mv::execute(from, to, vault); the run records the target key and the
\* files it found.
MMove(from, to, typed, r) ==
    /\ \E res \in {MoveCommand(fs, V, from, to, typed, now.t, r)} :
           /\ fs' = res.fs
           /\ out' = Report("mv", from, typed, res) @@ [to |-> to, before |-> fs]
           /\ hist' = [hist EXCEPT !.kept[from] = NoValue, !.kept[to] = NoValue]
    /\ UNCHANGED <<clipboard, now, envelope>>

NextMove ==
    \/ \E typed \in InitPasswords, id \in CmdIds, r \in CmdRnds : CmdInit(typed, id, r)
    \/ \E key \in CmdKeys, value \in Secrets, typed \in Answers, r \in CmdRnds :
          CmdAdd(key, value, typed, r)
    \/ \E from \in CmdKeys, to \in CmdKeys, typed \in Answers, r \in CmdRnds :
          MMove(from, to, typed, r)
    \/ CmdLock

SpecMove == Init /\ [][NextMove]_vars

----------------------------------------------------------------------------
(* The command pull (SpecPull).  The remote holds the commits that were      *)
(* pushed to it and, when another clone of the vault has added an entry and  *)
(* pushed, one commit more.                                                  *)

ForeignKey == <<"a", "/", "b">>

\* The commits the remote received from this clone.
PushedCommits(F) == SubSeq(GitRepo(F, V).commits, 1, GitRepo(F, V).pushed)

\* The files of another clone that is at the head of the remote.
OtherClone(F) ==
    LET pushed == PushedCommits(F)
        clone == GitCheckoutForce(F, V, GitWorkTree(F, V), pushed[Len(pushed)].tree)
    IN  [clone EXCEPT !.files[GitHead[V]] =
            [GitRepo(F, V) EXCEPT !.commits = pushed]]

\* The branch of the remote after the other clone ran `add` and pushed.
ForeignPush(F) ==
    GitRepo(AddCommand(OtherClone(F), V, ForeignKey, "y", Typed("p1"), now.t,
                       Rnd("n8", "s8"), NoFault).fs, V).commits

OriginChoices(F) ==
    IF ~GitIsRepo(F, V) THEN {<<>>}
    ELSE {PushedCommits(F)} \cup
         (IF GitRepo(F, V).pushed \in 1..MaxCommits THEN {ForeignPush(F)} ELSE {})

GPull ==
    /\ \E origin \in OriginChoices(fs) :
          \E res \in {PullCommand(fs, V, origin)} :
             /\ fs' = res.fs
             /\ out' = GitReport("pull", <<>>, res, NoFault) @@ [origin |-> origin]
    /\ UNCHANGED <<clipboard, now, envelope, hist>>

NextPull ==
    \/ \E remote \in GitRemotes, env \in Faults : GInit(remote, env)
    \/ \E key \in GitKeys, env \in Faults : GAdd(key, env)
    \/ \E key \in GitKeys : GEdit(key)
    \/ \E from \in GitKeys, to \in GitKeys : GMove(from, to)
    \/ GPull

SpecPull == Init /\ [][NextPull]_vars

----------------------------------------------------------------------------
(* Vaults created, locked, unlocked and deleted (SpecVault)                  *)

VaultRnd == Rnd("n9", "s9")

VInit(name, typed, id) ==
    /\ \E res \in {InitCommand(fs, name, typed, id, now.t, VaultRnd, NoGit, NoFault)} :
           /\ fs' = res.fs
           /\ out' = [op |-> "init", vault |-> name, ok |-> res.ok]
    /\ UNCHANGED <<clipboard, now, envelope, hist>>

VLock(name) ==
    /\ \E res \in {LockCommand(fs, name)} :
           /\ fs' = res.fs
           /\ out' = [op |-> "lock", vault |-> name, ok |-> res.ok]
    /\ UNCHANGED <<clipboard, now, envelope, hist>>

VUnlock(name, typed) ==
    /\ \E res \in {UnlockCommand(fs, name, typed, now.t, VaultRnd)} :
           /\ fs' = res.fs
           /\ out' = [op |-> "unlock", vault |-> name, ok |-> res.ok]
    /\ UNCHANGED <<clipboard, now, envelope, hist>>

VDelete(name, confirmed) ==
    /\ \E res \in {DeleteVaultCommand(fs, name, confirmed)} :
           /\ fs' = res.fs
           /\ out' = [op |-> "vault_delete", vault |-> name, ok |-> res.ok,
                      confirmed |-> confirmed]
    /\ UNCHANGED <<clipboard, now, envelope, hist>>

NextVault ==
    \/ \E name \in VaultNames, typed \in Passwords, id \in VaultIds : VInit(name, typed, id)
    \/ \E name \in VaultNames : VLock(name)
    \/ \E name \in VaultNames, typed \in Passwords : VUnlock(name, typed)
    \/ \E name \in VaultNames, confirmed \in BOOLEAN : VDelete(name, confirmed)

SpecVault == Init /\ [][NextVault]_vars

----------------------------------------------------------------------------
(* Claims about the Storage interface (SpecStore)                            *)

\* C1: store_entry(e, mk) followed by load_entry(e.key, mk) succeeds and
\* returns an Entry equal to e in id, key, metadata and the created, updated
\* and accessed timestamps.
C1_StoreLoadRoundTrip ==
    (out.op = "store_entry" /\ out.ok) =>
        LET loaded == LoadEntry(fs, V, out.entry.key, out.master_key)
        IN  /\ loaded.ok
            /\ loaded.val.id = out.entry.id
            /\ loaded.val.key = out.entry.key
            /\ loaded.val.metadata = out.entry.metadata
            /\ loaded.val.created_at = out.entry.created_at
            /\ loaded.val.updated_at = out.entry.updated_at
            /\ loaded.val.accessed_at = out.entry.accessed_at

\* A store of an entry with non-default metadata below a directory, next to
\* another entry.
C1_Witness ==
    /\ out.op = "store_entry" /\ out.ok
    /\ out.entry.key = <<"a", "/", "b">>
    /\ out.entry.metadata = RichMetadata
    /\ Cardinality(EntryFiles(fs, V)) = 2

RECURSIVE SortTexts(_)
SortTexts(texts) ==
    IF texts = {} THEN <<>>
    ELSE LET first == CHOOSE s \in texts : \A t \in texts : TextLeq(s, t)
         IN  <<first>> \o SortTexts(texts \ {first})

\* C10: list() returns exactly the logical keys stored and not deleted, each
\* as itself, sorted, without the .json suffix and with "/" as separator.
C10_ListIsTheStoredKeys ==
    VaultExists(fs, V) =>
        LET listed == ListEntries(fs, V)
        IN  listed.ok /\ listed.val = SortTexts(hist.live)

----------------------------------------------------------------------------
(* Claims about the session functions (SpecSession)                          *)

\* The vault still has the identifier it had when the session was stored.
SameVaultId ==
    LET config == LoadConfig(fs, V)
    IN  config.ok /\ config.val.id = hist.session.vault_id

\* C3: after store_master_key_permanently(mk), load_master_key_permanently()
\* returns exactly mk in every later invocation made no later than the
\* session's expires_at (3650 days after the store) and while the vault has
\* the identifier it had at the store; after clear_session the call fails
\* with NoSession.
C3_SessionRoundTrip ==
    /\ (hist.session.held /\ now.t <= hist.session.stored_at + SessionDays
           /\ SameVaultId) =>
          LET loaded == LoadMasterKeyPermanently(fs, V, now.t)
          IN  loaded.ok /\ loaded.val = hist.session.master_key
    /\ (out.op = "clear_session" /\ out.ok) =>
          LET loaded == LoadMasterKeyPermanently(fs, V, now.t)
          IN  ~loaded.ok /\ loaded.err = "NoSession"

\* The load on the last day of a session that was stored, then loaded.
C3_Witness ==
    /\ hist.session.held
    /\ now.t = hist.session.stored_at + SessionDays
    /\ out.op = "load_master_key_permanently" /\ out.ok
    /\ out.res.val = hist.session.master_key

\* C3 as stated: the load returns mk in any later invocation.
C3_AnyLaterInvocation ==
    /\ (hist.session.held /\ SameVaultId) =>
          LET loaded == LoadMasterKeyPermanently(fs, V, now.t)
          IN  loaded.ok /\ loaded.val = hist.session.master_key
    /\ (out.op = "clear_session" /\ out.ok) =>
          LET loaded == LoadMasterKeyPermanently(fs, V, now.t)
          IN  ~loaded.ok /\ loaded.err = "NoSession"

----------------------------------------------------------------------------
(* Claims about Crypto (SpecCrypto)                                          *)

\* C2: decrypt(encrypt(p, k), k) = p, and for every key k' other than k,
\* decrypt(encrypt(p, k), k') is the DecryptFailure error, not a plaintext.
C2_EncryptDecrypt ==
    out.op = "decrypt" =>
        IF out.with = out.key
        THEN out.res = Ok(out.data)
        ELSE out.res = Err("DecryptFailure")

\* A decryption under the key of another password for the same vault id.
C2_Witness ==
    /\ out.op = "decrypt"
    /\ out.key = DeriveKey(Typed("p1"), UuidAsBytes("i1"))
    /\ out.with = DeriveKey(Typed("p2"), UuidAsBytes("i1"))
    /\ out.data = Utf8("x")
    /\ ~out.res.ok

----------------------------------------------------------------------------
(* Claims about the commands (Spec)                                          *)

InitMasterKey == DeriveKey(hist.init.password, UuidAsBytes(hist.init.vault_id))

SessionWraps(F, master_key) ==
    /\ IsFile(F, SessionFile[V])
    /\ SessionFromJson(F.files[SessionFile[V]]).val.encrypted_master_key.data
          = master_key.key

\* C5: a get run right after lock with no password supplied yields NoSession;
\* a get of a stored key in which the password chosen at init is supplied
\* succeeds and leaves a session that wraps the master key.
C5_LockThenRead ==
    [][(hist.init.done /\ VaultExists(fs, V) /\ out'.op = "get") =>
          /\ (out.op = "lock" /\ out.ok /\ out'.typed = Typed("")) =>
                out'.res = Err("NoSession")
          /\ (out'.prompted /\ out'.typed = hist.init.password
                 /\ IsFile(fs, EntryFile[V, out'.key])) =>
                (out'.ok /\ SessionWraps(fs', InitMasterKey))]_vars

\* C6: every entry file of the store, outside and inside, and the key wrapped
\* in the session are under derive_key(password chosen at init, vault id).
C6_SingleMasterKey ==
    hist.init.done =>
        /\ \A p \in EntryFiles(fs, V) :
              /\ fs.files[p].value.ciphertext.sealed_key = InitMasterKey.key
              /\ fs.files[p].value.ciphertext.data.ciphertext.sealed_key
                    = InitMasterKey.key
        /\ IsFile(fs, SessionFile[V]) => SessionWraps(fs, InitMasterKey)

----------------------------------------------------------------------------
(* Claims about export and import (SpecPort)                                 *)

\* C7: export_vault(p) followed by import_vault(bytes, p, W) on an empty
\* target yields a vault whose list() equals the source's at the export and
\* in which the file of every key of the source is the source's file.
C7_ExportImportRoundTrip ==
    (out.op = "import_vault" /\ out.ok /\ out.on_empty /\ ~out.altered) =>
        /\ ListEntries(fs, W).val = hist.exported.list
        /\ \A key \in hist.exported.keys :
              /\ IsFile(fs, EntryFile[W, key])
              /\ fs.files[EntryFile[W, key]] = hist.exported.files[key]

\* C8: import_vault of an export file whose ciphertext was changed fails
\* with ChecksumMismatch and leaves the filesystem as it was.
C8_ChangedCiphertextRejected ==
    (out.op = "import_vault" /\ out.ciphertext_changed) =>
        /\ out.res = Err("ChecksumMismatch")
        /\ ~out.wrote

\* An import of a changed export file, with the right password, after an
\* earlier import had created vault W.
C8_Witness ==
    /\ out.op = "import_vault" /\ out.ciphertext_changed
    /\ out.password = hist.exported.password
    /\ ~out.on_empty
    /\ EntryFiles(fs, W) # {}
    /\ ~out.ok

\* C9: the .vault written by import_vault has the new name, and the
\* identifier and every other field of the exported vault's .vault.
C9_ImportChangesOnlyName ==
    (out.op = "import_vault" /\ out.ok) =>
        LET config == LoadConfig(fs, W)
        IN  /\ config.ok
            /\ config.val = [hist.exported.config EXCEPT !.name = W]
            /\ config.val.id = hist.exported.config.id

\* An import of vault V, which holds an entry, as W.
C9_Witness ==
    /\ out.op = "import_vault" /\ out.ok
    /\ hist.exported.config.name = V
    /\ LoadConfig(fs, W).val.name = W
    /\ hist.exported.keys # {}

----------------------------------------------------------------------------
(* Claims about delete_entry (SpecDelete)                                    *)

\* The directories that lie on the way from `top` (excluded) to the file p.
AncestorsBelow(top, p) ==
    {d \in Prefixes(p) : d # p /\ d # top /\ IsPrefix(top, d)}

\* Directory d of F holds something other than the file p and the
\* directories on the way to p.
HoldsOther(F, d, p) ==
    \E q \in (DOMAIN F.files \cup F.dirs) \ Prefixes(p) : IsPrefix(d, q) /\ q # d

\* C11: a successful delete_entry removes the entry's file and nothing else
\* of the files, and the directories it removes are exactly the ancestors of
\* the file strictly below store/ that hold nothing else; store/ stays.
C11_DeletePrunes ==
    (out.op = "delete_entry" /\ out.ok) =>
        LET path == EntryFile[V, out.key]
            before == out.before
        IN  /\ DOMAIN fs.files = DOMAIN before.files \ {path}
            /\ \A q \in DOMAIN fs.files : fs.files[q] = before.files[q]
            /\ fs.dirs \subseteq before.dirs
            /\ before.dirs \ fs.dirs =
                  {d \in AncestorsBelow(StoreDir[V], path) : ~HoldsOther(before, d, path)}
            /\ IsDir(fs, StoreDir[V])

----------------------------------------------------------------------------
(* Claims about init_vault (SpecSession)                                     *)

\* C12: init_vault on a vault whose .vault is present fails and leaves the
\* filesystem (the .vault, the store and the session file) as it was.
C12_InitOnExistingVault ==
    [][(VaultExists(fs, V) /\ out'.op = "init_vault") =>
          (~out'.ok /\ fs' = fs)]_vars

----------------------------------------------------------------------------
(* Claims about what the commands write (Spec)                               *)

\* The byte strings and texts a file spells out to whoever reads it.
FileBytes(file) ==
    CASE file.json = "Session" ->
            {file.session.encrypted_master_key, file.session.nonce,
             file.session.salt, file.session.key_hash}
      [] file.json = "Entry" ->
            {file.value.ciphertext, file.value.nonce, file.value.salt}
      [] file.json = "VaultConfig" -> {UuidToString(file.config.id)}
      [] OTHER -> {}

EnvelopeBytes ==
    IF envelope.present
    THEN {envelope.data.encrypted_data.base64, envelope.data.nonce.base64,
          envelope.data.salt.base64}
    ELSE {}

\* An AEAD ciphertext shows nothing of what it seals.
IsSealed(bytes) == "sealed_key" \in DOMAIN bytes

\* The master keys of the vault: one per password that was ever typed.
VaultMasterKeys == {DeriveKey(pw, UuidAsBytes(id)) : pw \in Passwords, id \in VaultIds}

\* C13: no file on disk and no export file spells out a master key, and a
\* session file holds a master key sealed under the key derived from the
\* vault identifier and the session's salt, with the session's nonce.
C13_MasterKeyNeverInClear ==
    /\ \A bytes \in UNION {FileBytes(fs.files[p]) : p \in DOMAIN fs.files} \cup EnvelopeBytes :
          ~IsSealed(bytes) => \A mk \in VaultMasterKeys : bytes # mk.key
    /\ \A p \in DOMAIN fs.files :
          fs.files[p].json = "Session" =>
             LET session == fs.files[p].session
                 sealed == session.encrypted_master_key
             IN  /\ IsSealed(sealed)
                 /\ sealed.sealed_key = DeriveKey(session.key_hash, session.salt).key
                 /\ sealed.sealed_nonce = session.nonce
                 /\ \E mk \in VaultMasterKeys : sealed.data = mk.key

\* After init and an add, the session file wraps the vault's master key and
\* an entry file is on disk.
C13_Witness ==
    /\ hist.init.done
    /\ IsFile(fs, SessionFile[V])
    /\ SessionWraps(fs, InitMasterKey)
    /\ \E k \in CmdKeys : IsFile(fs, EntryFile[V, k])

----------------------------------------------------------------------------
(* Claims about load_session (SpecSession)                                   *)

\* C14: in every state, a load of the session finds no file and gives
\* NoSession; or finds a session whose expires_at is earlier than now, removes
\* the file and gives SessionExpired, after which a load gives NoSession; or
\* finds a session that is not expired and leaves the filesystem as it is.
C14_LoadSession ==
    LET loaded == LoadSession(fs, V, now.t)
        again == LoadSession(loaded.fs, V, now.t)
        session == SessionFromJson(fs.files[SessionFile[V]]).val
    IN  IF ~PathExists(fs, SessionFile[V])
        THEN loaded = Fail(fs, "NoSession")
        ELSE IF session.expires_at < now.t
        THEN /\ ~loaded.ok /\ loaded.err = "SessionExpired"
             /\ ~PathExists(loaded.fs, SessionFile[V])
             /\ ~again.ok /\ again.err = "NoSession"
        ELSE loaded = Done(fs, session)

\* A stored session outlived its ten years and load_master_key_permanently
\* was run: it gave SessionExpired and the file is gone.
C14_Witness ==
    /\ hist.session.held
    /\ now.t > hist.session.stored_at + SessionDays
    /\ out.op = "load_master_key_permanently"
    /\ out.res = Err("SessionExpired")
    /\ ~PathExists(fs, SessionFile[V])

----------------------------------------------------------------------------
(* Claims about the history repository (SpecGit)                             *)

MutatingOps == {"add", "edit", "mv", "remove"}

\* The last command succeeded, on a vault that was a history repository, and
\* changed the files of the vault.
Mutated ==
    /\ out.op \in MutatingOps
    /\ out.ok
    /\ GitIsRepo(out.before, V)
    /\ GitWorkTree(fs, V) # GitWorkTree(out.before, V)

\* The last commit of the repository holds the files of the vault as they are.
CommittedAll(F) ==
    /\ Commits(F) > 0
    /\ GitRepo(F, V).commits[Commits(F)].tree = GitWorkTree(F, V)

\* C15: when the vault directory is a history repository, a command that
\* mutated an entry and returned success has committed the vault: the
\* repository has one more commit, and it holds the files as they are now.
C15_MutationsAreCommitted ==
    Mutated => /\ Commits(fs) = Commits(out.before) + 1
               /\ CommittedAll(fs)

\* The last command was an add or a remove on a history repository, it got
\* as far as the adaptor, and a call of the adaptor failed in it.
HistoryFailed ==
    /\ out.op \in {"add", "remove"}
    /\ GitIsRepo(out.before, V)
    /\ out.env.commit_fails \/ out.env.push_fails
    /\ out.ok \/ out.res.err = "GitError"

\* The entry is as the last command left it: stored by add, gone by remove.
EntryAsMutated ==
    IF out.op = "add" THEN IsFile(fs, EntryFile[V, out.key])
    ELSE /\ IsFile(out.before, EntryFile[V, out.key])
         /\ ~IsFile(fs, EntryFile[V, out.key])

\* C16: a failure of the history adaptor (commit or push) after the mutation
\* of add or remove does not block the command: it returns success and the
\* entry stays as mutated.
C16_HistoryFailureDoesNotBlock ==
    HistoryFailed => (out.ok /\ EntryAsMutated)

----------------------------------------------------------------------------
(* Claims about the clipboard eraser (SpecClip)                              *)

\* C17: when the eraser has emptied the clipboard, what it wiped was the
\* text of its copy, still as the copy wrote it: not contents that another
\* program wrote after the copy.
C17_EraserWipesOnlyItsCopy ==
    (clipboard.by = "eraser") =>
        /\ clipboard.wiped.contents = clipboard.eraser.clear_text
        /\ clipboard.wiped.by = "copy"

----------------------------------------------------------------------------
(* Claims about generate_password (SpecGen)                                  *)

Generated == out.op = "generate_password"

\* C18: for every options (any classes, exclude_ambiguous, custom charset,
\* the fallback for an empty alphabet) generate_password returns exactly
\* options.length characters.
C18_GeneratedLength ==
    Generated => Len(out.password) = out.options.length

\* A password of the longest length made by the fallback for an empty alphabet.
C18_Witness ==
    /\ Generated
    /\ out.options.length = MaxLength
    /\ Charset(out.options) = <<>>
    /\ Len(out.password) = MaxLength

Chars(text) == {text[i] : i \in DOMAIN text}

\* The alphabet of the class that is the only one enabled in options.
OnlyClass(options) ==
    LET enabled == <<options.use_lowercase, options.use_uppercase,
                     options.use_numbers, options.use_symbols>>
        alphabets == <<Lowercase, Uppercase, Numbers, Symbols>>
        on == {i \in 1 .. 4 : enabled[i]}
    IN  IF Cardinality(on) = 1 THEN Chars(alphabets[CHOOSE i \in on : TRUE])
        ELSE {}

\* C19: with exclude_ambiguous set the password has none of 0, O, o, l, 1,
\* I, whatever the classes or the custom charset; and when exactly one class
\* is enabled every character of the password is of that class's alphabet.
C19_GeneratedAlphabet ==
    Generated =>
        /\ out.options.exclude_ambiguous => Chars(out.password) \cap Ambiguous = {}
        /\ OnlyClass(out.options) # {} => Chars(out.password) \subseteq OnlyClass(out.options)

----------------------------------------------------------------------------
(* Claims about load_entry on altered files (SpecLoad)                       *)

\* C20: load_entry of a key whose file is missing returns EntryNotFound;
\* load_entry of a file whose stored nonce or ciphertext was altered (in
\* content or in length), or with a master key other than the one that
\* stored it, returns DecryptFailure: no entry, and no abort of the process.
C20_LoadAltered ==
    (out.op = "load_entry") =>
        IF ~PathExists(fs, EntryFile[V, out.key])
        THEN out.res = Err("EntryNotFound")
        ELSE LET value == fs.files[EntryFile[V, out.key]].value
             IN  (Altered(value) \/ SealedKey(value) # out.master_key.key)
                     => out.res = Err("DecryptFailure")

----------------------------------------------------------------------------
(* Claims about search_entries (SpecSearch)                                  *)

\* The entry stored under the logical key k, as load_entry gives it with mk.
StoredEntry(k, mk) == LoadEntry(fs, V, k, mk)

\* The lowercased query is in the lowercased key, decrypted value, username,
\* notes, url, a tag or a custom-field value of the entry stored under k.
QueryMatches(k, mk, query) ==
    LET entry == StoredEntry(k, mk).val
        q == ToLowercase(query)
        value == FromUtf8(Decrypt(entry.value, mk).val).val
        texts == {value, entry.metadata.username, entry.metadata.notes,
                  entry.metadata.url}
                 \cup {entry.metadata.tags[i] : i \in DOMAIN entry.metadata.tags}
                 \cup {field[2] : field \in entry.metadata.custom_fields}
    IN  \/ Contains(ToLowercase(TextChars(k)), q)
        \/ \E t \in texts \ {"None"} : Matches(t, q)

\* C21: search_entries returns exactly the pairs (key, entry) of the stored
\* entries, readable with the master key, that the query matches.
C21_SearchResults ==
    (out.op = "search_entries" /\ out.ok) =>
        {out.res.val[i] : i \in DOMAIN out.res.val}
            = {<<k, StoredEntry(k, out.master_key).val>> :
                  k \in {l \in hist.live : /\ StoredEntry(l, out.master_key).ok
                                            /\ QueryMatches(l, out.master_key, out.query)}}

----------------------------------------------------------------------------
(* Claims about the import of a plaintext file (SpecImport)                  *)

\* The keys of the file that had an entry file before the import.
ExistingKeys ==
    {k \in {out.content.entries[i].key : i \in DOMAIN out.content.entries} :
        IsFile(out.before, EntryFile[V, k])}

\* C22: an import without --overwrite leaves the file of every key that was
\* already in the vault as it was.
C22_ImportKeepsExisting ==
    (out.op = "import" /\ ~out.overwrite) =>
        \A k \in ExistingKeys :
            /\ IsFile(fs, EntryFile[V, k])
            /\ fs.files[EntryFile[V, k]] = out.before.files[EntryFile[V, k]]

----------------------------------------------------------------------------
(* Claims about the command `vault import` (SpecVaultImport)                 *)

\* The errors of an export file that fails validation.
ValidationErrors == {"ImportError", "ChecksumMismatch", "DecryptFailure"}

\* C23: a `vault import` that fails on the validation of the export file
\* (not a bunker export, checksum mismatch, wrong password) has changed
\* nothing on disk: a vault that had the target name is still there as it was.
C23_FailedImportChangesNothing ==
    (out.op = "vault_import" /\ ~out.ok /\ out.res.err \in ValidationErrors)
        => fs = out.before

----------------------------------------------------------------------------
(* Claims about the clearing of the clipboard (SpecClipFair)                 *)

\* C24: after a copy with a timeout, the clipboard is eventually empty,
\* unless something else than the copy has written it in between.
C24_EventuallyCleared ==
    (clipboard.by = "copy" /\ clipboard.eraser.pc = "sleep")
        ~> (clipboard.contents = "" \/ clipboard.by # "copy")

----------------------------------------------------------------------------
(* Claims about key derivation (SpecKdf)                                     *)

\* The cost parameters of an EncryptionConfig.
CostParameters(encryption) ==
    <<encryption.kdf_iterations, encryption.kdf_memory, encryption.kdf_parallelism>>

\* A run of get_master_key that derived the key from a typed password, after
\* an earlier run that did so too.
DerivedAgain ==
    /\ out.op = "get_master_key" /\ out.ok /\ out.res.prompted
    /\ out.earlier # NoDerivation

\* C25: the key derived for a vault depends on the cost parameters of the
\* vault's EncryptionConfig: two derivations from the same password and the
\* same salt, for configurations with different cost parameters, give
\* different keys.
C25_KeyDependsOnCost ==
    (/\ DerivedAgain
     /\ out.derivation.typed = out.earlier.typed
     /\ out.derivation.config.id = out.earlier.config.id
     /\ CostParameters(out.derivation.config.encryption)
           # CostParameters(out.earlier.config.encryption))
        => out.derivation.key # out.earlier.key

----------------------------------------------------------------------------
(* Claims about the command unlock (SpecUnlock)                              *)

\* The session file of vault V, read as load_session reads it.
SessionOnDisk(F) == SessionFromJson(F.files[SessionFile[V]]).val

----------------------------------------------------------------------------
(* Claims about the command mv (SpecMove)                                    *)

\* The entry at `key` in the files F, opened with the key of the session
\* that the run of mv left.
OpenedEntry(F, key) ==
    LoadEntry(F, V, key, LoadMasterKeyPermanently(fs, V, now.t).val)

\* C27: after a successful mv from to, the entry that was at `from` is
\* loadable at `to` with the same value and metadata and with `to` as its
\* key, also when from = to and when `to` held an entry already.
C27_MovedEntryIsAtTarget ==
    (out.op = "mv" /\ out.ok) =>
        /\ OpenedEntry(fs, out.to).ok
        /\ OpenedEntry(fs, out.to).val
              = [OpenedEntry(out.before, out.key).val EXCEPT !.key = out.to]

----------------------------------------------------------------------------
(* Claims about the paths store_entry and delete_entry touch (SpecDelete)    *)

\* The files and directories in which F and G differ.
ChangedPaths(F, G) ==
    {p \in DOMAIN F.files \cup DOMAIN G.files :
        ~(IsFile(F, p) /\ IsFile(G, p) /\ F.files[p] = G.files[p])}
    \cup ((F.dirs \ G.dirs) \cup (G.dirs \ F.dirs))

\* C28: whatever the logical key, a store_entry or a delete_entry writes,
\* removes, creates and prunes only files and directories inside the
\* directory store/ of the vault.
C28_OnlyInsideStore ==
    [][out'.op \in {"store_entry", "delete_entry"} =>
          \A p \in ChangedPaths(fs, fs') : IsPrefix(StoreDir[V], p)]_vars

----------------------------------------------------------------------------
(* Claims about the command pull (SpecPull)                                  *)

\* What path p holds in the files F, and in a tree of a commit.
Absent == [json |-> "absent"]
HeldAt(F, p) == IF IsFile(F, p) THEN F.files[p] ELSE Absent
HeldInTree(tree, p) == IF p \in DOMAIN tree THEN tree[p] ELSE Absent

\* The entry files in which the working tree of F differs from what this
\* clone pushed last: changes that are not committed, or committed and not
\* pushed.
LocalChanges(F) ==
    LET pushed == PushedCommits(F)
        tree == IF pushed = <<>> THEN << >> ELSE pushed[Len(pushed)].tree
    IN  {p \in DOMAIN GitWorkTree(F, V) \cup DOMAIN tree :
            IsPrefix(StoreDir[V], p) /\ HeldAt(F, p) # HeldInTree(tree, p)}

\* C29: a successful pull loses no local state: every entry file that was
\* changed locally holds after the pull what it held before, and every local
\* commit is still a commit of the branch.
C29_PullKeepsLocalState ==
    (out.op = "pull" /\ out.ok) =>
        /\ \A p \in LocalChanges(out.before) : HeldAt(fs, p) = HeldAt(out.before, p)
        /\ \A i \in DOMAIN GitRepo(out.before, V).commits :
              \E j \in DOMAIN GitRepo(fs, V).commits :
                 GitRepo(fs, V).commits[j] = GitRepo(out.before, V).commits[i]

----------------------------------------------------------------------------
(* Claims about the sessions of vaults (SpecVault)                           *)

\* C30: a session file sessions/<name>.session exists only if the vault
\* <name> exists and the file wraps a master key of that vault: it opens
\* under the key derived from the vault's id, and the key inside was derived
\* with the vault's id as salt.
C30_SessionsOfLiveVaults ==
    \A name \in VaultNames :
        IsFile(fs, SessionFile[name]) =>
            /\ VaultExists(fs, name)
            /\ LoadMasterKeyPermanently(fs, name, now.t).ok
            /\ LoadMasterKeyPermanently(fs, name, now.t).val.key.salt
                  = UuidAsBytes(LoadConfig(fs, name).val.id)

=============================================================================
